---------------------------- MODULE Spec2Model ----------------------------
(***************************************************************************)
(* Formula engine of hfp_formulatool_py: tokenizer, recursive-descent      *)
(* parser, literal normalizer, NNF/DNF conversion and clause normalizer    *)
(* (core/formula_parser.py, core/dnf.py, core/utils.py,                    *)
(* core/operator_config.py).                                               *)
(*                                                                         *)
(* Strings are sequences of one-character strings, so that slicing,        *)
(* startswith/endswith, upper()/lower() and the regular expressions of     *)
(* the source are computed character by character.  Source positions are   *)
(* 0-based as in the Python code; formula[i] of the source is f[i + 1].    *)
(* A raised exception is a record with ok = FALSE and the class of the     *)
(* exception, which every caller that does not catch it passes on          *)
(* unchanged; a returned value is a record with ok = TRUE.                 *)
(***************************************************************************)
EXTENDS Integers, Sequences, FiniteSets, TLC

VARIABLES
    pc,         \* the caller's position in its sequence of calls
    formula,    \* the formula string handed to parse_formula
    op_config,  \* the OperatorConfig handed to the engine
    run,        \* which of the caller's two successive round trips is in progress
    position,   \* Parser.position of the last Parser object whose parse() returned
    ast,        \* result of parse_formula, or the AST handed to to_nnf / to_dnf
    nnf,        \* result of to_nnf
    dnf,        \* result of to_dnf, or the clause list handed to normalize_dnf
    normalized, \* result of normalize_dnf
    first,      \* the results of the first round trip, kept by the caller
    text,       \* the raw literal handed to parse_literal
    literal,    \* result of parse_literal
    tokenized,  \* result of tokenize
    callback,   \* the literal parser handed to parse_formula_with_literal_parser
    files,      \* the content of the file at each operator configuration path
    CACHE,      \* _CACHE of core/operator_config.py
    raw,        \* the document the last load_operator_config read, if it read one
    loaded,     \* result of load_operator_config
    sheet,      \* the rows of the active sheet that process_excel reads
    grouped,    \* grouped of process_excel: the sections in the order of their first rows
    activity_results, \* activity_results of process_excel
    max_rules   \* max_rules of process_excel

vars == <<pc, formula, op_config, run, position, ast, nnf, dnf, normalized,
          first, text, literal, tokenized, callback, files, CACHE, raw, loaded,
          sheet, grouped, activity_results, max_rules>>

(***************************************************************************)
(* Characters                                                              *)
(***************************************************************************)
UpperLetters == <<"A","B","C","D","E","F","G","H","I","J","K","L","M",
                  "N","O","P","Q","R","S","T","U","V","W","X","Y","Z">>
LowerLetters == <<"a","b","c","d","e","f","g","h","i","j","k","l","m",
                  "n","o","p","q","r","s","t","u","v","w","x","y","z">>
DigitChars == <<"0","1","2","3","4","5","6","7","8","9">>

\* The characters of the model in code-point order.
CharOrder == <<" ", "!", "&", "(", ")">> \o DigitChars \o <<"<", "=", ">">>
             \o UpperLetters \o <<"_">> \o LowerLetters \o <<"|", "~">>

Range(s) == {s[k] : k \in 1..Len(s)}
UpperSet == Range(UpperLetters)
LowerSet == Range(LowerLetters)
DigitSet == Range(DigitChars)

IndexOf(s, c) == CHOOSE k \in 1..Len(s) : s[k] = c

\* ord(ch), up to a monotone renumbering
Ord(c) == IndexOf(CharOrder, c)

isspace(c) == c = " "
isalpha_char(c) == c \in UpperSet \cup LowerSet
isdigit_char(c) == c \in DigitSet

upper_char(c) == IF c \in LowerSet THEN UpperLetters[IndexOf(LowerLetters, c)] ELSE c
lower_char(c) == IF c \in UpperSet THEN LowerLetters[IndexOf(UpperLetters, c)] ELSE c

upper(s) == [k \in 1..Len(s) |-> upper_char(s[k])]
lower(s) == [k \in 1..Len(s) |-> lower_char(s[k])]

\* str.isalpha(): non-empty and every character a letter
isalpha(s) == Len(s) > 0 /\ \A k \in 1..Len(s) : isalpha_char(s[k])
\* str.isdigit(): non-empty and every character a digit
isdigit(s) == Len(s) > 0 /\ \A k \in 1..Len(s) : isdigit_char(s[k])

\* s[a:b] of Python for 0 <= a, b
Slice(s, a, b) ==
    LET e == IF b > Len(s) THEN Len(s) ELSE b
    IN  IF a >= e THEN <<>> ELSE SubSeq(s, a + 1, e)

\* s.startswith(t, pos)
startswith(s, t, pos) ==
    /\ pos + Len(t) <= Len(s)
    /\ \A k \in 1..Len(t) : s[pos + k] = t[k]

\* s.endswith(t)
endswith(s, t) ==
    /\ Len(t) <= Len(s)
    /\ \A k \in 1..Len(t) : s[Len(s) - Len(t) + k] = t[k]

\* s.strip()
RECURSIVE lstrip(_)
lstrip(s) == IF s # <<>> /\ isspace(s[1]) THEN lstrip(Tail(s)) ELSE s
RECURSIVE rstrip(_)
rstrip(s) == IF s # <<>> /\ isspace(s[Len(s)]) THEN rstrip(SubSeq(s, 1, Len(s) - 1)) ELSE s
strip(s) == rstrip(lstrip(s))

Max(a, b) == IF a >= b THEN a ELSE b
Min(a, b) == IF a <= b THEN a ELSE b

(***************************************************************************)
(* core/formula_parser.py: character classes and error context             *)
(***************************************************************************)
\* _is_word_char
is_word_char(c) == isalpha_char(c) \/ isdigit_char(c) \/ c = "_"

\* _IDENTIFIER_RE = [A-Za-z0-9_]+ : end of the greedy match starting at i, or i when none
RECURSIVE identifier_end(_, _)
identifier_end(f, i) ==
    IF i < Len(f) /\ is_word_char(f[i + 1]) THEN identifier_end(f, i + 1) ELSE i

\* _IDENTIFIER_RE.fullmatch
identifier_fullmatch(s) == Len(s) > 0 /\ \A k \in 1..Len(s) : is_word_char(s[k])

\* default of _near's window parameter
NearWindow == 40

\* _near (the model has no newline, carriage return or tab to replace)
near(f, pos) == Slice(f, Max(0, pos - NearWindow), Min(Len(f), pos + NearWindow))

(***************************************************************************)
(* core/operator_config.py: OperatorConfig                                 *)
(***************************************************************************)
\* _is_word_operator
is_word_operator(token) == isalpha(token)

\* The roles of OperatorConfig.mapping are the fields of a record; an absent
\* role (NOT may be absent, mapping.get(role, ())) is the empty tuple.
\* ops.append((token, role, is_word)) for every token of one role
role_ops(cfg, role) ==
    [k \in 1..Len(cfg[role]) |->
        [token |-> cfg[role][k], type |-> role,
         is_word |-> IF role \in {"LPAREN", "RPAREN"} THEN FALSE
                     ELSE is_word_operator(cfg[role][k])]]

\* mutant of sort_ops: the tokens left in the order they were appended
sort_ops_omitted(s) == s

\* ops.sort(key=lambda item: len(item[0]), reverse=True): stable, longest first
RECURSIVE sort_ops(_)
RECURSIVE insert_op(_, _)
insert_op(s, e) ==
    IF s = <<>> THEN <<e>>
    ELSE IF Len(s[Len(s)].token) >= Len(e.token) THEN Append(s, e)
    ELSE Append(insert_op(SubSeq(s, 1, Len(s) - 1), e), s[Len(s)])
sort_ops(s) ==
    IF s = <<>> THEN <<>>
    ELSE insert_op(sort_ops(SubSeq(s, 1, Len(s) - 1)), s[Len(s)])

\* OperatorConfig.expression_ops
expression_ops(cfg) ==
    sort_ops(role_ops(cfg, "LPAREN") \o role_ops(cfg, "RPAREN") \o role_ops(cfg, "NOT")
             \o role_ops(cfg, "AND") \o role_ops(cfg, "OR"))

\* sorted(tokens, key=len, reverse=True): stable, longest first
RECURSIVE sorted_longest_first(_)
RECURSIVE insert_token(_, _)
insert_token(s, e) ==
    IF s = <<>> THEN <<e>>
    ELSE IF Len(s[Len(s)]) >= Len(e) THEN Append(s, e)
    ELSE Append(insert_token(SubSeq(s, 1, Len(s) - 1), e), s[Len(s)])
sorted_longest_first(s) ==
    IF s = <<>> THEN <<>>
    ELSE insert_token(sorted_longest_first(SubSeq(s, 1, Len(s) - 1)), s[Len(s)])

\* OperatorConfig.eq_ops
eq_ops(cfg) == sorted_longest_first(cfg.EQ)
\* mutant of neq_ops: the EQ tokens taken for the NEQ tokens
neq_ops_from_eq(cfg) == sorted_longest_first(cfg.EQ)

\* OperatorConfig.neq_ops
neq_ops(cfg) == sorted_longest_first(cfg.NEQ)

\* OperatorConfig.summary
summary(cfg) ==
    [k \in {"AND", "OR", "NOT", "EQ", "NEQ", "LPAREN", "RPAREN"} \cap DOMAIN cfg |-> cfg[k]]

\* DEFAULT_CONFIG, tokens normalized as load_operator_config stores them
DEFAULT_CONFIG ==
    [AND |-> << <<"&">>, <<"A","N","D">> >>,
     OR |-> << <<"|">>, <<"O","R">> >>,
     NOT |-> << <<"!">>, <<"N","O","T">> >>,
     NEQ |-> << <<"<",">">>, <<"!","=">> >>,
     EQ |-> << <<"=">> >>,
     LPAREN |-> << <<"(">> >>,
     RPAREN |-> << <<")">> >>]

(***************************************************************************)
(* core/operator_config.py: load_operator_config                           *)
(*                                                                         *)
(* A JSON document is [kind |-> "object", keys, values] with its keys in   *)
(* the order of the file, or a document of another kind; a value is a list *)
(* of items or something else; an item is a string or something else.      *)
(***************************************************************************)
REQUIRED_KEYS == {"AND", "OR", "EQ", "NEQ", "LPAREN", "RPAREN"}

OperatorConfigError(message) ==
    [ok |-> FALSE, exception |-> "OperatorConfigError", error |-> message]

\* mutant of _normalize_token: keywords keep their case
normalize_token_keeping_case(token) == strip(token)

\* _normalize_token
normalize_token(token) ==
    IF is_word_operator(strip(token)) THEN upper(strip(token)) ELSE strip(token)

\* one item of _iter_tokens, token being _normalize_token(item)
RECURSIVE iter_tokens(_, _, _)
iter_token(items, k, tokens, token) ==
    IF token = <<>> THEN OperatorConfigError("operator token must not be empty")
    ELSE iter_tokens(items, k + 1, Append(tokens, token))

\* tuple(_iter_tokens(value)) from item k on
iter_tokens(items, k, tokens) ==
    IF k > Len(items) THEN [ok |-> TRUE, tokens |-> tokens]
    ELSE IF items[k].kind # "str"
    THEN OperatorConfigError("operator values must be strings")
    ELSE iter_token(items, k, tokens, normalize_token(items[k].value))

Elements(tokens) == {tokens[k] : k \in 1..Len(tokens)}

\* for key, value in raw.items(): from key number k on; a role without
\* tokens stays the empty tuple of mapping.get(role, ())
RECURSIVE load_items(_, _, _, _)
load_item(document, k, mapping, seen, key, tokens) ==
    IF ~tokens.ok THEN tokens
    ELSE IF key \in REQUIRED_KEYS /\ tokens.tokens = <<>>
    THEN OperatorConfigError("must have at least one token")
    ELSE IF \E t \in Elements(tokens.tokens) : t \in DOMAIN seen /\ seen[t] # key
    THEN OperatorConfigError("duplicate token")
    ELSE load_items(document, k + 1, [mapping EXCEPT ![key] = tokens.tokens],
                    [t \in DOMAIN seen \cup Elements(tokens.tokens) |->
                        IF t \in Elements(tokens.tokens) THEN key ELSE seen[t]])

load_value(document, k, mapping, seen, key, value) ==
    IF value.kind # "list"
    THEN OperatorConfigError("operator values must be lists of strings")
    ELSE load_item(document, k, mapping, seen, key, iter_tokens(value.items, 1, <<>>))

load_items(document, k, mapping, seen) ==
    IF k > Len(document.keys) THEN [ok |-> TRUE, config |-> mapping]
    ELSE load_value(document, k, mapping, seen, document.keys[k],
                    document.values[document.keys[k]])

\* load_operator_config after the cache lookup: read, validate, build
load_document(document) ==
    IF document.kind \in {"missing", "invalid"}
    THEN OperatorConfigError("could not load operator config")
    ELSE IF document.kind # "object"
    THEN OperatorConfigError("operator config JSON must be an object/dict")
    ELSE IF REQUIRED_KEYS \ Elements(document.keys) # {}
    THEN OperatorConfigError("missing required keys")
    ELSE load_items(document, 1,
                    [role \in REQUIRED_KEYS \cup {"NOT"} |-> <<>>], << >>)

(***************************************************************************)
(* core/formula_parser.py: tokenize                                        *)
(***************************************************************************)
Token(type, value, pos) == [type |-> type, value |-> value, pos |-> pos]

\* mutant of _matches_at: a keyword matches wherever its letters are
matches_at_anywhere(f, pos, token, is_word) ==
    IF is_word
    THEN LET end == pos + Len(token)
         IN  end <= Len(f) /\ upper(Slice(f, pos, end)) = token
    ELSE startswith(f, token, pos)

\* _matches_at
matches_at(f, pos, token, is_word) ==
    IF is_word
    THEN LET end == pos + Len(token)
         IN  /\ end <= Len(f)
             /\ upper(Slice(f, pos, end)) = token
             /\ (pos = 0 \/ ~is_word_char(f[pos]))
             /\ (end = Len(f) \/ ~is_word_char(f[end + 1]))
    ELSE startswith(f, token, pos)

\* for op_token, op_type, is_word in op_config.expression_ops: the first match, or 0
first_op_match(f, i, ops) ==
    LET hits == {k \in 1..Len(ops) : matches_at(f, i, ops[k].token, ops[k].is_word)}
    IN  IF hits = {} THEN 0 ELSE CHOOSE k \in hits : \A j \in hits : k <= j

\* mutant of the comparator loop: the first comparator of the list is not tried
first_comp_match_skipping(f, i, comps) ==
    LET hits == {k \in 2..Len(comps) : startswith(f, comps[k], i)}
    IN  IF hits = {} THEN 0 ELSE CHOOSE k \in hits : \A j \in hits : k <= j

\* for comp in list(neq_ops) + list(eq_ops): the first comparator at i, or 0
first_comp_match(f, i, comps) ==
    LET hits == {k \in 1..Len(comps) : startswith(f, comps[k], i)}
    IN  IF hits = {} THEN 0 ELSE CHOOSE k \in hits : \A j \in hits : k <= j

\* mutant of the error of tokenize: positions counted from 1
TokenizeError_one_based(kind, f, pos, ch, cfg) ==
    [ok |-> FALSE, exception |-> "FormulaParseError", error |-> "TOKENIZE_FAILED",
     kind |-> kind, pos |-> pos + 1,
     got |-> ch, near |-> near(f, pos), expected_ops |-> summary(cfg)]

\* the FormulaParseError of tokenize: "TOKENIZE_FAILED: ... at pos= near= expected_ops="
TokenizeError(kind, f, pos, ch, cfg) ==
    [ok |-> FALSE, exception |-> "FormulaParseError", error |-> "TOKENIZE_FAILED",
     kind |-> kind, pos |-> pos,
     got |-> ch, near |-> near(f, pos), expected_ops |-> summary(cfg)]

\* One iteration of the scan loop of tokenize, then the rest of the loop.
\* ops is op_config.expression_ops and comps is list(neq_ops) + list(eq_ops),
\* which the loop recomputes, to the same value, in every iteration.
RECURSIVE tokenize_from(_, _, _, _, _, _)
tokenize_from(f, cfg, ops, comps, i, tokens) ==
    IF i >= Len(f) THEN [ok |-> TRUE, tokens |-> tokens]
    ELSE IF isspace(f[i + 1]) THEN tokenize_from(f, cfg, ops, comps, i + 1, tokens)
    ELSE
      LET m == first_op_match(f, i, ops)
      IN  IF m # 0
          THEN tokenize_from(f, cfg, ops, comps, i + Len(ops[m].token),
                             Append(tokens, Token(ops[m].type, ops[m].token, i)))
          ELSE
            LET start == i
                i1 == IF f[i + 1] = "!" THEN i + 1 ELSE i
                i2 == identifier_end(f, i1)
            IN  IF i2 = i1
                THEN TokenizeError("unknown character", f, start, <<f[start + 1]>>, cfg)
                ELSE
                  LET c == first_comp_match(f, i2, comps)
                      i3 == IF c # 0 THEN i2 + Len(comps[c]) ELSE i2
                  IN  IF c # 0 /\ (i3 >= Len(f) \/ f[i3 + 1] \notin {"0", "1"})
                      THEN TokenizeError("expected 0/1", f, i3,
                                         IF i3 >= Len(f) THEN <<"<","e","o","f",">">>
                                         ELSE <<f[i3 + 1]>>, cfg)
                      ELSE
                        LET i4 == IF c # 0 THEN i3 + 1 ELSE i3
                        IN  tokenize_from(f, cfg, ops, comps, i4,
                                Append(tokens, Token("LITERAL", Slice(f, start, i4), start)))

tokenize(f, cfg) ==
    tokenize_from(f, cfg, expression_ops(cfg), neq_ops(cfg) \o eq_ops(cfg), 0, <<>>)

\* mutant of literal_token: the token of a literal starts after its '!'
literal_token_after_prefix(f, start, i) ==
    IF f[start + 1] = "!" THEN Token("LITERAL", Slice(f, start + 1, i), start + 1)
    ELSE Token("LITERAL", Slice(f, start, i), start)

\* tokens.append(Token("LITERAL", formula[start:i], start))
literal_token(f, start, i) == Token("LITERAL", Slice(f, start, i), start)

\* One iteration of the scan loop of tokenize at position i < len(formula):
\* the error it raises, or the position and the tokens it leaves.
tokenize_iteration(f, cfg, ops, comps, i, tokens) ==
    IF isspace(f[i + 1]) THEN [ok |-> TRUE, i |-> i + 1, tokens |-> tokens]
    ELSE
      LET m == first_op_match(f, i, ops)
      IN  IF m # 0
          THEN [ok |-> TRUE, i |-> i + Len(ops[m].token),
                tokens |-> Append(tokens, Token(ops[m].type, ops[m].token, i))]
          ELSE
            LET start == i
                i1 == IF f[i + 1] = "!" THEN i + 1 ELSE i
                i2 == identifier_end(f, i1)
            IN  IF i2 = i1
                THEN TokenizeError("unknown character", f, start, <<f[start + 1]>>, cfg)
                ELSE
                  LET c == first_comp_match(f, i2, comps)
                      i3 == IF c # 0 THEN i2 + Len(comps[c]) ELSE i2
                  IN  IF c # 0 /\ (i3 >= Len(f) \/ f[i3 + 1] \notin {"0", "1"})
                      THEN TokenizeError("expected 0/1", f, i3,
                                         IF i3 >= Len(f) THEN <<"<","e","o","f",">">>
                                         ELSE <<f[i3 + 1]>>, cfg)
                      ELSE
                        LET i4 == IF c # 0 THEN i3 + 1 ELSE i3
                        IN  [ok |-> TRUE, i |-> i4,
                             tokens |-> Append(tokens, literal_token(f, start, i4))]

(***************************************************************************)
(* core/models.py and the AST of core/formula_parser.py                    *)
(***************************************************************************)
LiteralModel(id, display_name, op) == [id |-> id, display_name |-> display_name, op |-> op]

LiteralNode(lit) == [type |-> "LiteralNode", literal |-> lit]
NotNode(child) == [type |-> "NotNode", child |-> child]
AndNode(left, right) == [type |-> "AndNode", left |-> left, right |-> right]
OrNode(left, right) == [type |-> "OrNode", left |-> left, right |-> right]

(***************************************************************************)
(* core/formula_parser.py: parse_literal                                   *)
(***************************************************************************)
\* the FormulaParseError of parse_literal; shown is the part of the literal
\* that the message quotes
LiteralError(kind, shown) ==
    [ok |-> FALSE, exception |-> "FormulaParseError", error |-> kind, shown |-> shown]

\* re.search of a plain substring
contains(s, sub) == \E i \in 0..(Len(s) - Len(sub)) : startswith(s, sub, i)

\* re.search(r"\bWORD\b", text, re.IGNORECASE) for a word of letters
search_word(s, word) ==
    \E i \in 0..(Len(s) - Len(word)) :
        /\ upper(Slice(s, i, i + Len(word))) = word
        /\ (i = 0 \/ ~is_word_char(s[i]))
        /\ (i + Len(word) = Len(s) \/ ~is_word_char(s[i + Len(word) + 1]))

\* the first index k of toks with Hit[k], or 0
first_index(n, hits) ==
    IF hits = {} THEN 0 ELSE CHOOSE k \in hits : \A j \in hits : k <= j

parse_literal(raw_literal, display_name, cfg) ==
    LET txt == strip(raw_literal)
        neqs == neq_ops(cfg)
        eqs == eq_ops(cfg)
    IN
    IF contains(txt, <<"<", "=">>) \/ contains(txt, <<">", "=">>)
    THEN LiteralError("Unsupported comparison in literal", txt)
    ELSE IF (contains(txt, <<"<">>) \/ contains(txt, <<">">>))
            /\ \E k \in 1..Len(neqs) : endswith(txt, neqs[k] \o <<"0">>)
    THEN LiteralError("Invalid comparison in literal", txt)
    ELSE IF search_word(txt, <<"X","O","R">>) \/ search_word(txt, <<"I","F">>)
    THEN LiteralError("Unsupported operator in literal", txt)
    ELSE
      LET n == first_index(Len(neqs),
                   {k \in 1..Len(neqs) : endswith(txt, neqs[k] \o <<"1">>)})
          e == first_index(Len(eqs),
                   {k \in 1..Len(eqs) : endswith(txt, eqs[k] \o <<"0">>)
                                        \/ endswith(txt, eqs[k] \o <<"1">>)})
          res ==
            IF startswith(txt, <<"!">>, 0)
            THEN [identifier |-> strip(Slice(txt, 1, Len(txt))), op |-> "NEQ1"]
            ELSE IF n # 0
            THEN [identifier |-> strip(Slice(txt, 0, Len(txt) - Len(neqs[n]) - 1)),
                  op |-> "NEQ1"]
            ELSE IF e # 0
            THEN [identifier |-> strip(Slice(txt, 0, Len(txt) - Len(eqs[e]) - 1)),
                  op |-> IF endswith(txt, eqs[e] \o <<"0">>) THEN "EQ0" ELSE "EQ1"]
            ELSE [identifier |-> txt, op |-> "EQ1"]
      IN  IF res.identifier = <<>>
          THEN LiteralError("Literal missing identifier", <<>>)
          ELSE IF ~identifier_fullmatch(res.identifier)
          THEN LiteralError("Invalid literal identifier", res.identifier)
          ELSE [ok |-> TRUE,
                literal |-> LiteralModel(res.identifier, display_name, res.op)]

(***************************************************************************)
(* core/formula_parser.py: Parser                                          *)
(***************************************************************************)
\* mutant of Parser: the new Parser starts where the previous one stopped
Parser_stale_position(tokens, literal_parser, f) ==
    [tokens |-> tokens, position |-> position, literal_parser |-> literal_parser,
     formula |-> f]

\* Parser.__init__: a new Parser starts at token 0 (self.position = 0)
Parser(tokens, literal_parser, f) ==
    [tokens |-> tokens, position |-> 0, literal_parser |-> literal_parser, formula |-> f]

\* parse_formula_ids' callback after its call parsed = parse_literal(raw_literal,
\* raw_literal, op_config): the literal is named by its identifier
id_literal_parser(parsed) ==
    IF ~parsed.ok THEN parsed
    ELSE [ok |-> TRUE,
          literal |-> LiteralModel(parsed.literal.id, parsed.literal.id, parsed.literal.op)]

\* the literal parser lp on a literal, parsed being parse_literal(value, value,
\* op_config), which each of them calls
\*   "lambda": parse_formula's lambda value: parse_literal(value, value, op_config)
\*   "id_literal_parser": parse_formula_ids' callback
\*   "raising": a caller's callback that raises lp.raises on the literal
\*       lp.on and is id_literal_parser on every other literal
literal_parser_result(lp, value, parsed) ==
    IF lp.kind = "lambda" THEN parsed
    ELSE IF lp.kind = "raising" /\ value = lp.on
    THEN [ok |-> FALSE, exception |-> lp.raises, error |-> "raised by the literal parser"]
    ELSE id_literal_parser(parsed)

\* self.literal_parser(literal_token.value)
call_literal_parser(lp, value) ==
    literal_parser_result(lp, value, parse_literal(value, value, lp.op_config))

\* Parser.parse_factor on the LITERAL token taken by c = consume("LITERAL"), l
\* being what the literal parser did on its value
literal_factor(P, c, l) ==
    IF l.ok THEN [ok |-> TRUE, node |-> LiteralNode(l.literal), position |-> c.position]
    \* except FormulaParseError as exc: any other exception leaves
    \* parse_factor as it is
    ELSE IF l.exception = "FormulaParseError"
    THEN [ok |-> FALSE, exception |-> "FormulaParseError", error |-> "LITERAL_FAILED",
          cause |-> l, pos |-> c.token.pos, near |-> near(P.formula, c.token.pos)]
    ELSE l

parse_factor_literal(P, c) ==
    literal_factor(P, c, call_literal_parser(P.literal_parser, c.token.value))

\* Parser._error
ParserError(P, message, pos) ==
    [ok |-> FALSE, exception |-> "FormulaParseError", error |-> "PARSE_FAILED",
     message |-> message, pos |-> pos, near |-> near(P.formula, pos)]

\* Parser.current: the token at position p, or None
has_current(P, p) == p < Len(P.tokens)
current(P, p) == P.tokens[p + 1]

\* Parser.consume(expected_type): the error it raises, or ok with the next position
consume(P, p, expected_type) ==
    IF ~has_current(P, p)
    THEN ParserError(P, "unexpected end of formula", Len(P.formula))
    ELSE IF current(P, p).type # expected_type
    THEN ParserError(P, "expected another token type", current(P, p).pos)
    ELSE [ok |-> TRUE, token |-> current(P, p), position |-> p + 1]

\* mutant of or_chain: the operands of the new OrNode exchanged
or_chain_swapped(node, rhs) == OrNode(rhs, node)

\* node = OrNode(node, self.parse_term())
or_chain(node, rhs) == OrNode(node, rhs)
\* node = AndNode(node, self.parse_factor())
and_chain(node, rhs) == AndNode(node, rhs)

\* Parser.parse_expr, parse_term and parse_factor, and the while loops of the
\* first two, as one recursive operator: rule names the method (or loop) that
\* runs at token position p; node is the loop's node so far.
RECURSIVE parse_rule(_, _, _, _)
parse_rule(P, rule, node, p) ==
    IF rule = "parse_expr"
    THEN \* node = self.parse_term(), then the while loop
         LET t == parse_rule(P, "parse_term", node, p)
         IN  IF ~t.ok THEN t ELSE parse_rule(P, "parse_expr_loop", t.node, t.position)
    ELSE IF rule = "parse_expr_loop"
    THEN \* while self.current() and self.current().type == "OR"
         IF has_current(P, p) /\ current(P, p).type = "OR"
         THEN LET c == consume(P, p, "OR")
                  t == parse_rule(P, "parse_term", node, c.position)
              IN  IF ~t.ok THEN t
                  ELSE parse_rule(P, "parse_expr_loop", or_chain(node, t.node), t.position)
         ELSE [ok |-> TRUE, node |-> node, position |-> p]
    ELSE IF rule = "parse_term"
    THEN \* node = self.parse_factor(), then the while loop
         LET t == parse_rule(P, "parse_factor", node, p)
         IN  IF ~t.ok THEN t ELSE parse_rule(P, "parse_term_loop", t.node, t.position)
    ELSE IF rule = "parse_term_loop"
    THEN \* while self.current() and self.current().type == "AND"
         IF has_current(P, p) /\ current(P, p).type = "AND"
         THEN LET c == consume(P, p, "AND")
                  t == parse_rule(P, "parse_factor", node, c.position)
              IN  IF ~t.ok THEN t
                  ELSE parse_rule(P, "parse_term_loop", and_chain(node, t.node), t.position)
         ELSE [ok |-> TRUE, node |-> node, position |-> p]
    ELSE \* rule = "parse_factor"
      IF ~has_current(P, p)
      THEN ParserError(P, "unexpected end of formula", Len(P.formula))
      ELSE
        LET token == current(P, p)
        IN  IF token.type = "NOT"
            THEN LET c == consume(P, p, "NOT")
                     t == parse_rule(P, "parse_factor", node, c.position)
                 IN  IF ~t.ok THEN t
                     ELSE [ok |-> TRUE, node |-> NotNode(t.node), position |-> t.position]
            ELSE IF token.type = "LPAREN"
            THEN LET c == consume(P, p, "LPAREN")
                     t == parse_rule(P, "parse_expr", node, c.position)
                 IN  IF ~t.ok THEN t
                     ELSE LET r == consume(P, t.position, "RPAREN")
                          IN  IF ~r.ok THEN r
                              ELSE [ok |-> TRUE, node |-> t.node, position |-> r.position]
            ELSE IF token.type = "LITERAL"
            THEN parse_factor_literal(P, consume(P, p, "LITERAL"))
            ELSE ParserError(P, "unexpected token", token.pos)

\* Parser.parse_expr
parse_expr(P, p) == parse_rule(P, "parse_expr", <<>>, p)

\* mutant of Parser.parse: tokens after the expression are not looked at
parse_accepting_prefix(P) == parse_expr(P, P.position)

\* Parser.parse, started at the Parser object's position
parse(P) ==
    LET t == parse_expr(P, P.position)
    IN  IF ~t.ok THEN t
        ELSE IF has_current(P, t.position)
        THEN ParserError(P, "unexpected token", current(P, t.position).pos)
        ELSE t

\* parse_formula_with_literal_parser
parse_formula_with_literal_parser(f, literal_parser, cfg) ==
    LET toks == tokenize(f, cfg)
    IN  IF ~toks.ok THEN toks
        ELSE IF toks.tokens = <<>>
        THEN [ok |-> FALSE, exception |-> "FormulaParseError", error |-> "PARSE_FAILED",
              message |-> "formula is empty"]
        ELSE parse(Parser(toks.tokens, literal_parser, f))

\* parse_formula
parse_formula(f, cfg) ==
    parse_formula_with_literal_parser(f, [kind |-> "lambda", op_config |-> cfg], cfg)

(***************************************************************************)
(* core/dnf.py: negate_literal, to_nnf, distribute_and, to_dnf             *)
(***************************************************************************)
\* OP_ORDER
OP_ORDER == [EQ0 |-> 0, EQ1 |-> 1, NEQ1 |-> 2]

\* mutant of negate_literal: "equals 1" negated to "equals 0"
negate_literal_to_eq0(lit) ==
    IF lit.op = "EQ1" THEN [ok |-> TRUE, literal |-> LiteralModel(lit.id, lit.display_name, "EQ0")]
    ELSE IF lit.op = "NEQ1" THEN [ok |-> TRUE, literal |-> LiteralModel(lit.id, lit.display_name, "EQ1")]
    ELSE [ok |-> FALSE, exception |-> "FormulaParseError",
          error |-> "Negation of literal is not supported", id |-> lit.id]

\* mutant of negate_literal: a negated "equals 0" approximated by "equals 1"
negate_literal_approximating(lit) ==
    IF lit.op = "EQ1" THEN [ok |-> TRUE, literal |-> LiteralModel(lit.id, lit.display_name, "NEQ1")]
    ELSE [ok |-> TRUE, literal |-> LiteralModel(lit.id, lit.display_name, "EQ1")]

\* negate_literal
negate_literal(lit) ==
    IF lit.op = "EQ1" THEN [ok |-> TRUE, literal |-> LiteralModel(lit.id, lit.display_name, "NEQ1")]
    ELSE IF lit.op = "NEQ1" THEN [ok |-> TRUE, literal |-> LiteralModel(lit.id, lit.display_name, "EQ1")]
    ELSE [ok |-> FALSE, exception |-> "FormulaParseError",
          error |-> "Negation of literal is not supported", id |-> lit.id]

UnsupportedNode ==
    [ok |-> FALSE, exception |-> "FormulaParseError", error |-> "Unsupported AST node"]

\* mutant of to_nnf: only a negated literal at the root is folded
to_nnf_at_root(node) ==
    IF node.type = "NotNode" /\ node.child.type = "LiteralNode"
    THEN LET n == negate_literal(node.child.literal)
         IN  IF ~n.ok THEN n ELSE [ok |-> TRUE, node |-> LiteralNode(n.literal)]
    ELSE [ok |-> TRUE, node |-> node]

\* the two recursive calls of a binary result, the left one evaluated first
RECURSIVE to_nnf(_)
to_nnf(node) ==
    IF node.type = "LiteralNode" THEN [ok |-> TRUE, node |-> node]
    ELSE IF node.type = "NotNode"
    THEN LET child == node.child
         IN  IF child.type = "LiteralNode"
             THEN LET n == negate_literal(child.literal)
                  IN  IF ~n.ok THEN n ELSE [ok |-> TRUE, node |-> LiteralNode(n.literal)]
             ELSE IF child.type = "NotNode" THEN to_nnf(child.child)
             ELSE IF child.type = "AndNode"
             THEN LET l == to_nnf(NotNode(child.left))
                      r == to_nnf(NotNode(child.right))
                  IN  IF ~l.ok THEN l ELSE IF ~r.ok THEN r
                      ELSE [ok |-> TRUE, node |-> OrNode(l.node, r.node)]
             ELSE IF child.type = "OrNode"
             THEN LET l == to_nnf(NotNode(child.left))
                      r == to_nnf(NotNode(child.right))
                  IN  IF ~l.ok THEN l ELSE IF ~r.ok THEN r
                      ELSE [ok |-> TRUE, node |-> AndNode(l.node, r.node)]
             ELSE UnsupportedNode
    ELSE IF node.type = "AndNode"
    THEN LET l == to_nnf(node.left)
             r == to_nnf(node.right)
         IN  IF ~l.ok THEN l ELSE IF ~r.ok THEN r
             ELSE [ok |-> TRUE, node |-> AndNode(l.node, r.node)]
    ELSE IF node.type = "OrNode"
    THEN LET l == to_nnf(node.left)
             r == to_nnf(node.right)
         IN  IF ~l.ok THEN l ELSE IF ~r.ok THEN r
             ELSE [ok |-> TRUE, node |-> OrNode(l.node, r.node)]
    ELSE UnsupportedNode

\* for r_clause in right: clauses.append(l_clause + r_clause)
RECURSIVE distribute_inner(_, _, _)
distribute_inner(clauses, l_clause, right) ==
    IF right = <<>> THEN clauses
    ELSE distribute_inner(Append(clauses, l_clause \o Head(right)), l_clause, Tail(right))

\* for l_clause in left: the inner loop
RECURSIVE distribute_outer(_, _, _)
distribute_outer(clauses, left, right) ==
    IF left = <<>> THEN clauses
    ELSE distribute_outer(distribute_inner(clauses, Head(left), right), Tail(left), right)

\* mutant of distribute_and: the loops exchanged, the right clauses outermost
distribute_and_right_major(left, right) ==
    [k \in 1..(Len(left) * Len(right)) |->
        left[((k - 1) % Len(left)) + 1] \o right[((k - 1) \div Len(left)) + 1]]

\* distribute_and
distribute_and(left, right) == distribute_outer(<<>>, left, right)

RECURSIVE to_dnf(_)
to_dnf(node) ==
    LET n == to_nnf(node)
    IN  IF ~n.ok THEN n
        ELSE IF n.node.type = "LiteralNode"
        THEN [ok |-> TRUE, clauses |-> << <<n.node.literal>> >>]
        ELSE IF n.node.type = "OrNode"
        THEN LET l == to_dnf(n.node.left)
                 r == to_dnf(n.node.right)
             IN  IF ~l.ok THEN l ELSE IF ~r.ok THEN r
                 ELSE [ok |-> TRUE, clauses |-> l.clauses \o r.clauses]
        ELSE IF n.node.type = "AndNode"
        THEN LET l == to_dnf(n.node.left)
                 r == to_dnf(n.node.right)
             IN  IF ~l.ok THEN l ELSE IF ~r.ok THEN r
                 ELSE [ok |-> TRUE, clauses |-> distribute_and(l.clauses, r.clauses)]
        ELSE UnsupportedNode

(***************************************************************************)
(* core/utils.py: natural_key                                              *)
(***************************************************************************)
\* end of the run of digits (digits = TRUE) or of non-digits starting at i
RECURSIVE run_end(_, _, _)
run_end(s, i, digits) ==
    IF i < Len(s) /\ (isdigit_char(s[i + 1]) <=> digits) THEN run_end(s, i + 1, digits) ELSE i

\* re.split(r"(\d+)", text): pieces at odd indexes hold no digit (and may be
\* empty), pieces at even indexes are the digit runs
RECURSIVE split_digits(_)
split_digits(s) ==
    LET a == run_end(s, 0, FALSE)
        b == run_end(s, a, TRUE)
    IN  IF a = Len(s) THEN <<s>>
        ELSE <<Slice(s, 0, a), Slice(s, a, b)>> \o split_digits(Slice(s, b, Len(s)))

\* int(piece) for a run of digits
RECURSIVE int_of(_)
int_of(s) ==
    IF s = <<>> THEN 0
    ELSE 10 * int_of(SubSeq(s, 1, Len(s) - 1)) + (IndexOf(DigitChars, s[Len(s)]) - 1)

\* natural_key: int(piece) for a digit piece, piece.lower() otherwise
natural_key(id) ==
    LET pieces == split_digits(id)
    IN  [k \in 1..Len(pieces) |->
            IF isdigit(pieces[k]) THEN int_of(pieces[k]) ELSE lower(pieces[k])]

\* Python's comparison of two str: -1, 0 or 1
RECURSIVE str_cmp(_, _)
str_cmp(a, b) ==
    IF a = <<>> /\ b = <<>> THEN 0
    ELSE IF a = <<>> THEN -1
    ELSE IF b = <<>> THEN 1
    ELSE IF Ord(a[1]) < Ord(b[1]) THEN -1
    ELSE IF Ord(a[1]) > Ord(b[1]) THEN 1
    ELSE str_cmp(Tail(a), Tail(b))

int_cmp(a, b) == IF a < b THEN -1 ELSE IF a > b THEN 1 ELSE 0

\* Python's comparison of two natural_key lists from index k on: element-wise,
\* a proper prefix first; str pieces at odd and int pieces at even indexes
RECURSIVE natural_key_cmp(_, _, _)
natural_key_cmp(ka, kb, k) ==
    IF k > Len(ka) /\ k > Len(kb) THEN 0
    ELSE IF k > Len(ka) THEN -1
    ELSE IF k > Len(kb) THEN 1
    ELSE LET c == IF k % 2 = 1 THEN str_cmp(ka[k], kb[k]) ELSE int_cmp(ka[k], kb[k])
         IN  IF c # 0 THEN c ELSE natural_key_cmp(ka, kb, k + 1)

\* comparison of the sort keys (natural_key(lit.id), OP_ORDER[lit.op])
literal_key_cmp(x, y) ==
    LET c == natural_key_cmp(natural_key(x.id), natural_key(y.id), 1)
    IN  IF c # 0 THEN c ELSE int_cmp(OP_ORDER[x.op], OP_ORDER[y.op])

\* comparison of the clause sort keys [(natural_key(lit.id), OP_ORDER[lit.op]) ...]
RECURSIVE clause_key_cmp(_, _)
clause_key_cmp(c1, c2) ==
    IF c1 = <<>> /\ c2 = <<>> THEN 0
    ELSE IF c1 = <<>> THEN -1
    ELSE IF c2 = <<>> THEN 1
    ELSE LET c == literal_key_cmp(Head(c1), Head(c2))
         IN  IF c # 0 THEN c ELSE clause_key_cmp(Tail(c1), Tail(c2))

(***************************************************************************)
(* core/dnf.py: normalize_dnf                                              *)
(***************************************************************************)
\* sorted(by_id.values(), key=...): stable
RECURSIVE sorted_literals(_)
RECURSIVE insert_literal(_, _)
insert_literal(s, e) ==
    IF s = <<>> THEN <<e>>
    ELSE IF literal_key_cmp(s[Len(s)], e) <= 0 THEN Append(s, e)
    ELSE Append(insert_literal(SubSeq(s, 1, Len(s) - 1), e), s[Len(s)])
sorted_literals(s) ==
    IF s = <<>> THEN <<>>
    ELSE insert_literal(sorted_literals(SubSeq(s, 1, Len(s) - 1)), s[Len(s)])

\* normalized.sort(key=...): stable
RECURSIVE sorted_clauses(_)
RECURSIVE insert_clause(_, _)
insert_clause(s, e) ==
    IF s = <<>> THEN <<e>>
    ELSE IF clause_key_cmp(s[Len(s)], e) <= 0 THEN Append(s, e)
    ELSE Append(insert_clause(SubSeq(s, 1, Len(s) - 1), e), s[Len(s)])
\* mutant of sorted_clauses: the final sort left out
sorted_clauses_omitted(s) == s

sorted_clauses(s) ==
    IF s = <<>> THEN <<>>
    ELSE insert_clause(sorted_clauses(SubSeq(s, 1, Len(s) - 1)), s[Len(s)])

\* mutant of collect_by_id: every literal kept, repeated identifiers included
collect_by_id_keeping_all(by_id, clause) == [contradiction |-> FALSE, by_id |-> by_id \o clause]

\* The inner loop over the literals of one clause. by_id is the dict in
\* insertion order (a sequence of literals with distinct ids).
RECURSIVE collect_by_id(_, _)
collect_by_id(by_id, clause) ==
    IF clause = <<>> THEN [contradiction |-> FALSE, by_id |-> by_id]
    ELSE LET lit == Head(clause)
             hits == {k \in 1..Len(by_id) : by_id[k].id = lit.id}
         IN  IF hits # {}
             THEN IF by_id[CHOOSE k \in hits : TRUE].op # lit.op
                  THEN [contradiction |-> TRUE, by_id |-> by_id]
                  ELSE collect_by_id(by_id, Tail(clause))
             ELSE collect_by_id(Append(by_id, lit), Tail(clause))

\* mutant of signature: the identifiers alone
signature_of_ids(ordered) == [k \in 1..Len(ordered) |-> <<ordered[k].id>>]

\* signature = tuple((lit.id, lit.op) for lit in ordered)
signature(ordered) == [k \in 1..Len(ordered) |-> <<ordered[k].id, ordered[k].op>>]

\* The outer loop over the clauses: normalized and seen so far
RECURSIVE normalize_loop(_, _, _)
normalize_loop(acc, seen, clauses) ==
    IF clauses = <<>> THEN acc
    ELSE LET c == collect_by_id(<<>>, Head(clauses))
             ordered == sorted_literals(c.by_id)
         IN  IF c.contradiction THEN normalize_loop(acc, seen, Tail(clauses))
             ELSE IF signature(ordered) \in seen THEN normalize_loop(acc, seen, Tail(clauses))
             ELSE normalize_loop(Append(acc, ordered), seen \cup {signature(ordered)},
                                 Tail(clauses))

\* normalize_dnf
normalize_dnf(clauses) == sorted_clauses(normalize_loop(<<>>, {}, clauses))

(***************************************************************************)
(* Inputs                                                                  *)
(***************************************************************************)
\* a value not computed yet
None == [ok |-> FALSE, error |-> "None"]

\* the operator configuration paths; config/operators.json, the default
\* path, has no file
Paths == {"operators.json"}
NoFiles == [path \in Paths |-> [kind |-> "missing"]]
\* _CACHE: dict[str, OperatorConfig] = {}
EmptyCache == << >>

RECURSIVE Flatten(_)
Flatten(ps) == IF Len(ps) = 0 THEN <<>> ELSE Head(ps) \o Flatten(Tail(ps))

SeqsUpTo(S, n) == UNION {[1..k -> S] : k \in 0..n}

\* Formulas: at most MaxPieces pieces, each a literal, an operator, or a
\* parenthesis with the literal next to it
MaxPieces == 5
FormulaPieces == {<<"A">>, <<"B">>, <<"&">>, <<"|">>, <<"!">>, <<"(", "A">>, <<"B", ")">>}
Formulas == {Flatten(ps) : ps \in SeqsUpTo(FormulaPieces, MaxPieces)}

(***************************************************************************)
(* The caller of the engine: parse_formula, to_dnf, normalize_dnf, twice   *)
(* on the same formula (core/pipeline.py parse_formula_ids makes the same  *)
(* three calls)                                                            *)
(***************************************************************************)
Init ==
    /\ sheet = None /\ grouped = None /\ activity_results = None /\ max_rules = 0
    /\ pc = "parse_formula"
    /\ formula \in Formulas
    /\ op_config = DEFAULT_CONFIG
    /\ run = 1
    /\ position = 0
    /\ ast = None /\ nnf = None /\ dnf = None /\ normalized = None
    /\ first = None
    /\ text = <<>> /\ literal = None
    /\ tokenized = None /\ callback = None /\ files = NoFiles /\ CACHE = EmptyCache
    /\ raw = None /\ loaded = None

\* ast = parse_formula(formula, op_config)
ParseFormula ==
    /\ pc = "parse_formula"
    /\ LET r == parse_formula(formula, op_config)
       IN  /\ ast' = r
           /\ position' = IF r.ok THEN r.position ELSE position
           /\ pc' = IF r.ok THEN "to_dnf" ELSE "failed"
    /\ UNCHANGED <<sheet, grouped, activity_results, max_rules, raw, loaded, tokenized, callback, files, CACHE, formula, op_config,
                   run, nnf, dnf, normalized, first, text, literal>>

\* dnf = to_dnf(ast)
ToDnf ==
    /\ pc = "to_dnf"
    /\ dnf' = to_dnf(ast.node)
    /\ pc' = IF dnf'.ok THEN "normalize_dnf" ELSE "failed"
    /\ UNCHANGED <<sheet, grouped, activity_results, max_rules, raw, loaded, tokenized, callback, files, CACHE, formula, op_config,
                   run, position, ast, nnf, normalized, first, text, literal>>

\* normalized = normalize_dnf(dnf)
NormalizeDnf ==
    /\ pc = "normalize_dnf"
    /\ normalized' = normalize_dnf(dnf.clauses)
    /\ pc' = "done"
    /\ UNCHANGED <<sheet, grouped, activity_results, max_rules, raw, loaded, tokenized, callback, files, CACHE, formula, op_config,
                   run, position, ast, nnf, dnf, first, text, literal>>

\* the caller keeps the results and starts over with the same formula and configuration
Again ==
    /\ pc = "done"
    /\ run = 1
    /\ first' = [ast |-> ast, dnf |-> dnf, normalized |-> normalized]
    /\ run' = 2
    /\ pc' = "parse_formula"
    /\ ast' = None /\ dnf' = None /\ normalized' = None
    /\ UNCHANGED <<sheet, grouped, activity_results, max_rules, raw, loaded, tokenized, callback, files, CACHE, formula, op_config,
                   position, nnf, text, literal>>

Next == ParseFormula \/ ToDnf \/ NormalizeDnf \/ Again

Spec == Init /\ [][Next]_vars

(***************************************************************************)
(* The caller of to_nnf and to_dnf on an AST of at most MaxNodes nodes      *)
(***************************************************************************)
MaxNodes == 7
DnfIds == {<<"X">>, <<"Y">>, <<"Z">>}
DnfLiterals ==
    {LiteralModel(<<"X">>, <<"X">>, "EQ1"), LiteralModel(<<"X">>, <<"X">>, "EQ0"),
     LiteralModel(<<"Y">>, <<"Y">>, "EQ1"), LiteralModel(<<"Z">>, <<"Z">>, "NEQ1")}

\* the shapes of the ASTs of exactly n nodes, the literals left open
Hole == [type |-> "Hole"]

RECURSIVE Shapes(_)
Shapes(n) ==
    IF n = 1 THEN {Hole}
    ELSE {NotNode(t) : t \in Shapes(n - 1)}
         \cup UNION {{AndNode(l, r) : l \in Shapes(k), r \in Shapes(n - 1 - k)} : k \in 1..(n - 2)}
         \cup UNION {{OrNode(l, r) : l \in Shapes(k), r \in Shapes(n - 1 - k)} : k \in 1..(n - 2)}

AllShapes == UNION {Shapes(n) : n \in 1..MaxNodes}

RECURSIVE Holes(_)
Holes(shape) ==
    IF shape.type = "Hole" THEN 1
    ELSE IF shape.type = "NotNode" THEN Holes(shape.child)
    ELSE Holes(shape.left) + Holes(shape.right)

\* the AST of a shape whose holes are filled from left to right with
\* literals[from + 1], literals[from + 2], ...
RECURSIVE Fill(_, _, _)
Fill(shape, literals, from) ==
    IF shape.type = "Hole" THEN LiteralNode(literals[from + 1])
    ELSE IF shape.type = "NotNode" THEN NotNode(Fill(shape.child, literals, from))
    ELSE IF shape.type = "AndNode"
    THEN AndNode(Fill(shape.left, literals, from),
                 Fill(shape.right, literals, from + Holes(shape.left)))
    ELSE OrNode(Fill(shape.left, literals, from),
                Fill(shape.right, literals, from + Holes(shape.left)))

InitDnf ==
    /\ sheet = None /\ grouped = None /\ activity_results = None /\ max_rules = 0
    /\ pc = "to_nnf"
    /\ \E shape \in AllShapes : \E literals \in [1..Holes(shape) -> DnfLiterals] :
          ast = [ok |-> TRUE, node |-> Fill(shape, literals, 0)]
    /\ formula = <<>>
    /\ op_config = DEFAULT_CONFIG
    /\ run = 1
    /\ position = 0
    /\ nnf = None /\ dnf = None /\ normalized = None
    /\ first = None
    /\ text = <<>> /\ literal = None
    /\ tokenized = None /\ callback = None /\ files = NoFiles /\ CACHE = EmptyCache
    /\ raw = None /\ loaded = None

\* nnf = to_nnf(ast)
ToNnf ==
    /\ pc = "to_nnf"
    /\ nnf' = to_nnf(ast.node)
    /\ pc' = "to_dnf"
    /\ UNCHANGED <<sheet, grouped, activity_results, max_rules, raw, loaded, tokenized, callback, files, CACHE, formula, op_config,
                   run, position, ast, dnf, normalized, first, text, literal>>

NextDnf == ToNnf \/ ToDnf

SpecDnf == InitDnf /\ [][NextDnf]_vars

(***************************************************************************)
(* The caller of normalize_dnf on a clause list of at most MaxLits literals *)
(***************************************************************************)
MaxLits == 4

\* identifiers that differ in letter case (A2, a2), in leading zeros (A2,
\* A02) and in the value of a digit run (A2, A10)
NormLiterals ==
    {LiteralModel(<<"A", "2">>, <<"A", "2">>, "EQ1"),
     LiteralModel(<<"A", "2">>, <<"A", "2">>, "EQ0"),
     LiteralModel(<<"a", "2">>, <<"a", "2">>, "EQ1"),
     LiteralModel(<<"A", "0", "2">>, <<"A", "0", "2">>, "NEQ1"),
     LiteralModel(<<"A", "1", "0">>, <<"A", "1", "0">>, "EQ1")}

\* the literals cut into clauses after the positions of cuts
RECURSIVE Split(_, _)
Split(literals, cuts) ==
    IF cuts = {} THEN <<literals>>
    ELSE LET c == CHOOSE c \in cuts : \A d \in cuts : d <= c
         IN  Append(Split(SubSeq(literals, 1, c), cuts \ {c}),
                    SubSeq(literals, c + 1, Len(literals)))

InitNorm ==
    /\ sheet = None /\ grouped = None /\ activity_results = None /\ max_rules = 0
    /\ pc = "normalize_dnf"
    /\ \E n \in 1..MaxLits : \E literals \in [1..n -> NormLiterals] :
          \E cuts \in SUBSET (1..(n - 1)) :
             dnf = [ok |-> TRUE, clauses |-> Split(literals, cuts)]
    /\ formula = <<>>
    /\ op_config = DEFAULT_CONFIG
    /\ run = 1
    /\ position = 0
    /\ ast = None /\ nnf = None /\ normalized = None
    /\ first = None
    /\ text = <<>> /\ literal = None
    /\ tokenized = None /\ callback = None /\ files = NoFiles /\ CACHE = EmptyCache
    /\ raw = None /\ loaded = None

NextNorm == NormalizeDnf

SpecNorm == InitNorm /\ [][NextNorm]_vars

(***************************************************************************)
(* The caller of parse_literal on a text of at most MaxLitPieces pieces     *)
(***************************************************************************)
MaxLitPieces == 4
LiteralPieces ==
    {<<"A">>, <<"!">>, <<"=">>, <<"<", ">">>, <<"!", "=">>, <<"<">>, <<"0">>, <<"1">>, <<" ">>}
LiteralTexts == {Flatten(ps) : ps \in SeqsUpTo(LiteralPieces, MaxLitPieces)}

\* a configuration with two EQ tokens and one NEQ token
CUSTOM_CONFIG ==
    [DEFAULT_CONFIG EXCEPT !.EQ = << <<"=">>, <<"=", "=">> >>, !.NEQ = << <<"!", "=">> >>]

\* a configuration whose EQ tokens are "=" and "<"
LESS_CONFIG == [DEFAULT_CONFIG EXCEPT !.EQ = << <<"=">>, <<"<">> >>]

InitLit ==
    /\ sheet = None /\ grouped = None /\ activity_results = None /\ max_rules = 0
    /\ pc = "parse_literal"
    /\ text \in LiteralTexts
    /\ op_config \in {DEFAULT_CONFIG, CUSTOM_CONFIG, LESS_CONFIG}
    /\ formula = <<>>
    /\ run = 1
    /\ position = 0
    /\ ast = None /\ nnf = None /\ dnf = None /\ normalized = None
    /\ first = None
    /\ literal = None
    /\ tokenized = None /\ callback = None /\ files = NoFiles /\ CACHE = EmptyCache
    /\ raw = None /\ loaded = None

\* literal = parse_literal(text, text, op_config)
ParseLiteral ==
    /\ pc = "parse_literal"
    /\ literal' = parse_literal(text, text, op_config)
    /\ pc' = IF literal'.ok THEN "done" ELSE "failed"
    /\ UNCHANGED <<sheet, grouped, activity_results, max_rules, raw, loaded, tokenized, callback, files, CACHE, formula, op_config,
                   run, position, ast, nnf, dnf, normalized, first, text>>

NextLit == ParseLiteral

SpecLit == InitLit /\ [][NextLit]_vars

(***************************************************************************)
(* SpecTok: tokenize on the formulas made of a few pieces, under the       *)
(* built-in configuration and the two configurations of                    *)
(* tests/unit/test_formula_parser_operator_config.py                       *)
(***************************************************************************)
MaxTokPieces == 4
TokPieces ==
    {<<"A">>, <<"A", "N", "D">>, <<"a", "n", "d">>, <<"=">>, <<"<", ">">>, <<"0">>, <<"1">>,
     <<"&">>, <<"!">>, <<" ">>}
TokFormulas == {Flatten(ps) : ps \in SeqsUpTo(TokPieces, MaxTokPieces)}

\* test_custom_and_operator_double_ampersand: AND is "&&" only
AMPERSAND_CONFIG ==
    [AND |-> << <<"&", "&">> >>,
     OR |-> << <<"|">> >>,
     NOT |-> << <<"!">> >>,
     NEQ |-> << <<"<", ">">> >>,
     EQ |-> << <<"=">> >>,
     LPAREN |-> << <<"(">> >>,
     RPAREN |-> << <<")">> >>]

\* test_tokenize_fails_when_operator_not_configured: keyword operators only
KEYWORD_CONFIG ==
    [AND |-> << <<"A", "N", "D">> >>,
     OR |-> << <<"O", "R">> >>,
     NOT |-> << <<"N", "O", "T">> >>,
     NEQ |-> << <<"<", ">">> >>,
     EQ |-> << <<"=">> >>,
     LPAREN |-> << <<"(">> >>,
     RPAREN |-> << <<")">> >>]

TokConfigs == {DEFAULT_CONFIG, AMPERSAND_CONFIG, KEYWORD_CONFIG}

InitTok ==
    /\ sheet = None /\ grouped = None /\ activity_results = None /\ max_rules = 0
    /\ pc = "tokenize"
    /\ formula \in TokFormulas
    /\ op_config \in TokConfigs
    /\ text = <<>>
    /\ run = 1
    /\ position = 0
    /\ ast = None /\ nnf = None /\ dnf = None /\ normalized = None
    /\ first = None
    /\ literal = None
    /\ tokenized = None /\ callback = None /\ files = NoFiles /\ CACHE = EmptyCache
    /\ raw = None /\ loaded = None

\* tokenized = tokenize(formula, op_config)
Tokenize ==
    /\ pc = "tokenize"
    /\ tokenized' = tokenize(formula, op_config)
    /\ pc' = IF tokenized'.ok THEN "tokenized" ELSE "failed"
    /\ UNCHANGED <<sheet, grouped, activity_results, max_rules, raw, loaded, callback, files, CACHE, formula, op_config, run, position, ast, nnf, dnf,
                   normalized, first, text, literal>>

NextTok == Tokenize

SpecTok == InitTok /\ [][NextTok]_vars

(***************************************************************************)
(* SpecParse: parse_formula_with_literal_parser with each literal parser,  *)
(* then to_dnf and normalize_dnf, as core/pipeline.py parse_formula_ids    *)
(* calls them                                                              *)
(***************************************************************************)
MaxParsePieces == 4
ParsePieces ==
    {<<"A">>, <<"A", "=", "0">>, <<"&">>, <<"!">>, <<"(">>, <<")">>, <<" ">>}
ParseFormulas == {Flatten(ps) : ps \in SeqsUpTo(ParsePieces, MaxParsePieces)}

\* the literal parsers: parse_formula's lambda, parse_formula_ids' callback,
\* and a caller's callback that raises on the literal "A", either a
\* FormulaParseError or a ValueError that is not one
LiteralParsers ==
    {[kind |-> "lambda", op_config |-> DEFAULT_CONFIG],
     [kind |-> "id_literal_parser", op_config |-> DEFAULT_CONFIG]}
    \cup {[kind |-> "raising", op_config |-> DEFAULT_CONFIG, on |-> <<"A">>, raises |-> e] :
             e \in {"FormulaParseError", "ValueError"}}

InitParse ==
    /\ sheet = None /\ grouped = None /\ activity_results = None /\ max_rules = 0
    /\ pc = "parse_formula_with_literal_parser"
    /\ formula \in ParseFormulas
    /\ callback \in LiteralParsers
    /\ op_config = DEFAULT_CONFIG
    /\ run = 1
    /\ position = 0
    /\ ast = None /\ nnf = None /\ dnf = None /\ normalized = None
    /\ first = None
    /\ text = <<>> /\ literal = None
    /\ tokenized = None /\ files = NoFiles /\ CACHE = EmptyCache
    /\ raw = None /\ loaded = None

\* ast = parse_formula_with_literal_parser(formula, callback, op_config)
ParseFormulaWithLiteralParser ==
    /\ pc = "parse_formula_with_literal_parser"
    /\ LET r == parse_formula_with_literal_parser(formula, callback, op_config)
       IN  /\ ast' = r
           /\ position' = IF r.ok THEN r.position ELSE position
           /\ pc' = IF r.ok THEN "to_dnf" ELSE "failed"
    /\ UNCHANGED <<sheet, grouped, activity_results, max_rules, raw, loaded, tokenized, callback, files, CACHE, formula, op_config, run, nnf, dnf,
                   normalized, first, text, literal>>

NextParse == ParseFormulaWithLiteralParser \/ ToDnf \/ NormalizeDnf

SpecParse == InitParse /\ [][NextParse]_vars

(***************************************************************************)
(* SpecCfg: load_operator_config called up to MaxLoads times on a path     *)
(* whose file is the default document with up to MaxEdits roles edited, or *)
(* no object at all, and is rewritten between the calls                    *)
(***************************************************************************)
MaxEdits == 2
MaxLoads == 2

Str(s) == [kind |-> "str", value |-> s]
Number == [kind |-> "number"]
List(items) == [kind |-> "list", items |-> items]
Absent == [kind |-> "absent"]

DocumentKeys == <<"AND", "OR", "NOT", "NEQ", "EQ", "LPAREN", "RPAREN">>

\* DEFAULT_CONFIG as a document
DEFAULT_DOCUMENT ==
    [kind |-> "object",
     keys |-> DocumentKeys,
     values |-> [role \in Elements(DocumentKeys) |->
                   List([k \in 1..Len(DEFAULT_CONFIG[role]) |-> Str(DEFAULT_CONFIG[role][k])])]]

\* what a role is edited to: no entry, an empty list, a string instead of a
\* list, a number in the list, a blank token, the keyword "and", the symbol
\* "|" after a blank, the symbol "#"
EditedValues ==
    {Absent, List(<< >>), Str(<<"&">>), List(<<Number>>), List(<<Str(<<" ">>)>>),
     List(<<Str(<<"a", "n", "d">>)>>), List(<<Str(<<" ", "|">>)>>), List(<<Str(<<"#">>)>>)}

Edits ==
    UNION {[roles -> EditedValues] :
             roles \in {e \in SUBSET Elements(DocumentKeys) : Cardinality(e) <= MaxEdits}}

HasEntry(edit, role) == ~(role \in DOMAIN edit /\ edit[role] = Absent)

Edited(edit) ==
    [kind |-> "object",
     keys |-> SelectSeq(DocumentKeys, LAMBDA role : HasEntry(edit, role)),
     values |-> [role \in {r \in Elements(DocumentKeys) : HasEntry(edit, r)} |->
                   IF role \in DOMAIN edit THEN edit[role]
                   ELSE DEFAULT_DOCUMENT.values[role]]]

\* no file, a file that is not JSON, a JSON array
OtherDocuments == {[kind |-> "missing"], [kind |-> "invalid"], [kind |-> "array"]}

Documents == {Edited(edit) : edit \in Edits} \cup OtherDocuments

\* what the file is rewritten to between two calls
Rewrites == OtherDocuments \cup {DEFAULT_DOCUMENT}

InitCfg ==
    /\ sheet = None /\ grouped = None /\ activity_results = None /\ max_rules = 0
    /\ pc = "start"
    /\ files \in [Paths -> Documents]
    /\ CACHE = EmptyCache
    /\ raw = None /\ loaded = None
    /\ run = 1
    /\ formula = << >> /\ op_config = DEFAULT_CONFIG
    /\ position = 0
    /\ ast = None /\ nnf = None /\ dnf = None /\ normalized = None
    /\ first = None
    /\ text = << >> /\ literal = None
    /\ tokenized = None /\ callback = None

\* mutant of cached: the cache is never found to hold the key
cached_never(cache, cache_key) == FALSE

\* cache_key in _CACHE
cached(cache, cache_key) == cache_key \in DOMAIN cache

\* _CACHE[cache_key] = config
store(cache, cache_key, config) ==
    [key \in DOMAIN cache \cup {cache_key} |-> IF key = cache_key THEN config ELSE cache[key]]

\* loaded = load_operator_config(path): the cached configuration, or the
\* file read, validated and, when valid, cached
LoadOperatorConfig ==
    /\ run <= MaxLoads
    /\ \E path \in Paths :
          IF cached(CACHE, path)
          THEN /\ loaded' = [ok |-> TRUE, config |-> CACHE[path]]
               /\ raw' = None
               /\ CACHE' = CACHE
               /\ pc' = "cached"
          ELSE /\ loaded' = load_document(files[path])
               /\ raw' = files[path]
               /\ CACHE' = IF loaded'.ok THEN store(CACHE, path, loaded'.config) ELSE CACHE
               /\ pc' = IF loaded'.ok THEN "loaded" ELSE "failed"
    /\ run' = run + 1
    /\ UNCHANGED <<sheet, grouped, activity_results, max_rules, files, formula, op_config, position, ast, nnf, dnf, normalized, first,
                   text, literal, tokenized, callback>>

\* the file of a path is rewritten, or removed, after a call
WriteFile ==
    /\ run > 1
    /\ run <= MaxLoads
    /\ \E path \in Paths : \E document \in Rewrites :
          /\ files[path] # document
          /\ files' = [files EXCEPT ![path] = document]
    /\ UNCHANGED <<sheet, grouped, activity_results, max_rules, raw, loaded, CACHE, pc, run, formula, op_config, position, ast, nnf, dnf,
                   normalized, first, text, literal, tokenized, callback>>

NextCfg == LoadOperatorConfig \/ WriteFile

SpecCfg == InitCfg /\ [][NextCfg]_vars

(***************************************************************************)
(* core/pipeline.py and core/utils.py: process_excel                       *)
(*                                                                         *)
(* A cell of the sheet is None or a text, Str(s).  A row is a record of    *)
(* the cells of its columns A, B, C, F, G, H and I.  A SectionResult is a  *)
(* record of its fields, a str field being None, Str(s) or, for the error, *)
(* the Text of the message of the exception.                               *)
(***************************************************************************)
\* "not value" of a cell
falsy(cell) == cell = None \/ cell.value = <<>>

\* the str of a message
Text(message) == [kind |-> "str", text |-> message]

\* the characters of a value inside the f-string of a message
RECURSIVE formatted(_)
formatted(chars) == IF chars = <<>> THEN "" ELSE chars[1] \o formatted(Tail(chars))

\* ABBREVIATIONS of core/utils.py
ABBREVIATIONS ==
    (<<"C", "l", "i", "m", "a", "t", "e", " ", "C", "h", "a", "n", "g", "e", " ", "M", "i", "t", "i", "g", "a", "t", "i", "o", "n">>
         :> <<"C", "C", "M">>)
    @@ (<<"C", "l", "i", "m", "a", "t", "e", " ", "C", "h", "a", "n", "g", "e", " ", "A", "d", "a", "p", "t", "a", "t", "i", "o", "n">>
         :> <<"C", "C", "A">>)
    @@ (<<"P", "o", "l", "l", "u", "t", "i", "o", "n", "P", "r", "e", "v", "e", "n", "t", "i", "o", "n", " ", "a", "n", "d", " ", "C", "o", "n", "t", "r", "o", "l">>
         :> <<"P", "P", "C">>)
    @@ (<<"W", "a", "t", "e", "r">>
         :> <<"W", "T", "R">>)
    @@ (<<"B", "i", "o", "d", "i", "v", "e", "r", "s", "i", "t", "y">>
         :> <<"B", "I", "O">>)
    @@ (<<"C", "i", "r", "c", "u", "l", "a", "r", " ", "E", "c", "o", "n", "o", "m", "y">>
         :> <<"C", "E">>)

\* sanitize_excel_sheet_name
sanitize_excel_sheet_name(name) ==
    strip(SelectSeq(name, LAMBDA c : c \notin {"[", "]", "*", "?", "/", "\\", ":", "'"}))

\* str of a positive int
RECURSIVE str_of_int(_)
str_of_int(n) ==
    IF n < 10 THEN <<DigitChars[n + 1]>>
    ELSE Append(str_of_int(n \div 10), DigitChars[(n % 10) + 1])

\* the candidate of ensure_unique_sheet_name with a suffix
suffixed(trimmed, suffix) ==
    LET suffix_text == <<"_">> \o str_of_int(suffix)
    IN  rstrip(Slice(trimmed, 0, Max(0, 31 - Len(suffix_text))) \o suffix_text)

\* mutant of ensure_unique_sheet_name: the name is taken as it is
ensure_unique_sheet_name_unchecked(name, used) ==
    [name |-> Slice(sanitize_excel_sheet_name(name), 0, 31),
     used |-> used \cup {Slice(sanitize_excel_sheet_name(name), 0, 31)}]

\* ensure_unique_sheet_name: the name returned and the names then in use
ensure_unique_sheet_name(name, used) ==
    LET trimmed == Slice(sanitize_excel_sheet_name(name), 0, 31)
    IN  IF trimmed \notin used THEN [name |-> trimmed, used |-> used \cup {trimmed}]
        ELSE LET suffix == CHOOSE n \in 1..(Cardinality(used) + 1) :
                               /\ suffixed(trimmed, n) \notin used
                               /\ \A m \in 1..(n - 1) : suffixed(trimmed, m) \in used
             IN  [name |-> suffixed(trimmed, suffix),
                  used |-> used \cup {suffixed(trimmed, suffix)}]

\* build_sheet_name, for an objective of ABBREVIATIONS
build_sheet_name(env_objective, section_number) ==
    ABBREVIATIONS[env_objective] \o <<"_">> \o section_number

\* the literals that id_literal_parser appended to id_literals: those of the
\* formula from left to right
RECURSIVE id_literals(_)
id_literals(node) ==
    IF node.type = "LiteralNode" THEN <<node.literal>>
    ELSE IF node.type = "NotNode" THEN id_literals(node.child)
    ELSE id_literals(node.left) \o id_literals(node.right)

\* deduped_vars: the first literal of each identifier
RECURSIVE deduped_vars(_)
deduped_vars(literals) ==
    IF literals = <<>> THEN <<>>
    ELSE LET front == SubSeq(literals, 1, Len(literals) - 1)
             last == literals[Len(literals)]
         IN  IF \E k \in 1..Len(front) : front[k].id = last.id
             THEN deduped_vars(front)
             ELSE Append(deduped_vars(front), last)

\* parse_formula_ids after the parse: to_dnf, normalize_dnf and the variables
formula_ids_of(id_ast, clauses) ==
    IF ~clauses.ok THEN clauses
    ELSE [ok |-> TRUE, normalized |-> normalize_dnf(clauses.clauses),
          variables |-> deduped_vars(id_literals(id_ast.node))]

formula_ids_dnf(id_ast) ==
    IF ~id_ast.ok THEN id_ast ELSE formula_ids_of(id_ast, to_dnf(id_ast.node))

\* parse_formula_ids
parse_formula_ids(formula_ids, cfg) ==
    formula_ids_dnf(parse_formula_with_literal_parser(
                        formula_ids, [kind |-> "id_literal_parser", op_config |-> cfg], cfg))

\* LiteralModel with the metadata of the variable mapping, as
\* _enrich_variable_with_mapping constructs it
LiteralModelWithMeta(id, display_name, op, technical_name, question_text) ==
    [id |-> id, display_name |-> display_name, op |-> op,
     technical_name |-> technical_name, question_text |-> question_text]

\* _enrich_variable_with_mapping without a mapping (mapping_path is None)
enrich_variable_with_mapping(lit) ==
    LiteralModelWithMeta(lit.id, lit.display_name, lit.op, <<>>, <<>>)

\* sorted(enriched_variables, key=_output_variable_sort_key): without question
\* texts the key is (1, "", literal.id.casefold()); stable
RECURSIVE sorted_variables(_)
RECURSIVE insert_variable(_, _)
insert_variable(s, e) ==
    IF s = <<>> THEN <<e>>
    ELSE IF str_cmp(lower(s[Len(s)].id), lower(e.id)) <= 0 THEN Append(s, e)
    ELSE Append(insert_variable(SubSeq(s, 1, Len(s) - 1), e), s[Len(s)])
sorted_variables(s) ==
    IF s = <<>> THEN <<>>
    ELSE insert_variable(sorted_variables(SubSeq(s, 1, Len(s) - 1)), s[Len(s)])

SectionKey(env_objective, section_number, activity, dnsh_goal, formula_ids, type_label) ==
    [env_objective |-> env_objective, section_number |-> section_number,
     activity |-> activity, dnsh_goal |-> dnsh_goal, formula_ids |-> formula_ids,
     type_label |-> type_label]

SectionResult(key, sheet_name, formula_ids, formula_display, variables, clauses, status, error) ==
    [key |-> key, sheet_name |-> sheet_name, formula_ids |-> formula_ids,
     formula_display |-> formula_display, variables |-> variables, dnf |-> clauses,
     status |-> status, error |-> error]

\* the result of the except branches
failed_result(key, first_row, error) ==
    SectionResult(key, None,
                  IF falsy(key.formula_ids) THEN None ELSE key.formula_ids,
                  IF falsy(first_row.I) THEN None ELSE first_row.I,
                  <<>>, <<>>, "FAILED", Text(error))

\* mutant of section_after_parse: the limit is reached by max_rules clauses
section_after_parse_at_limit(key, first_row, sheet_name, parsed, limit) ==
    IF ~parsed.ok THEN failed_result(key, first_row, parsed.error)
    ELSE IF Len(parsed.normalized) >= limit
    THEN failed_result(key, first_row, "DNF rule limit exceeded")
    ELSE SectionResult(key, sheet_name, key.formula_ids, first_row.I,
                       sorted_variables([k \in 1..Len(parsed.variables) |->
                                            enrich_variable_with_mapping(parsed.variables[k])]),
                       parsed.normalized, "OK", None)

\* a section after parse_formula_ids: its error, _check_rule_limit, the
\* enriched variables and the result
section_after_parse(key, first_row, sheet_name, parsed, limit) ==
    IF ~parsed.ok THEN failed_result(key, first_row, parsed.error)
    ELSE IF Len(parsed.normalized) > limit
    THEN failed_result(key, first_row, "DNF rule limit exceeded")
    ELSE SectionResult(key, sheet_name, key.formula_ids, first_row.I,
                       sorted_variables([k \in 1..Len(parsed.variables) |->
                                            enrich_variable_with_mapping(parsed.variables[k])]),
                       parsed.normalized, "OK", None)

\* one iteration of "for key, rows in grouped.items()": the SectionResult
section_result(group, cfg, limit) ==
    LET first_row == group.rows[1]
        key == SectionKey(group.key[1], first_row.B, group.key[2], group.key[3],
                          group.key[4], first_row.G)
    IN  IF falsy(key.env_objective) \/ falsy(key.activity) \/ falsy(key.dnsh_goal)
           \/ falsy(key.formula_ids)
        THEN failed_result(key, first_row, "Missing required section identification fields")
        ELSE IF falsy(first_row.B) THEN failed_result(key, first_row, "Missing section number")
        ELSE IF falsy(first_row.I) THEN failed_result(key, first_row, "Missing display formula")
        ELSE IF key.env_objective.value \notin DOMAIN ABBREVIATIONS
        THEN failed_result(key, first_row,
                 "Unknown environmental objective: " \o formatted(key.env_objective.value))
        ELSE section_after_parse(key, first_row,
                 Str(build_sheet_name(key.env_objective.value, first_row.B.value)),
                 parse_formula_ids(key.formula_ids.value, cfg), limit)

\* activity_name = str(activity) if activity else "Unknown"
activity_name(group) ==
    IF falsy(group.key[2]) THEN <<"U", "n", "k", "n", "o", "w", "n">> ELSE group.key[2].value

\* _group_rows: grouped[key].append(values), the keys in the order of their
\* first rows
RECURSIVE group_rows(_)
group_rows(rows) ==
    IF rows = <<>> THEN <<>>
    ELSE LET front == group_rows(SubSeq(rows, 1, Len(rows) - 1))
             row == rows[Len(rows)]
             key == <<row.A, row.C, row.F, row.H>>
         IN  IF \E k \in 1..Len(front) : front[k].key = key
             THEN [k \in 1..Len(front) |->
                      IF front[k].key = key
                      THEN [front[k] EXCEPT !.rows = Append(@, row)] ELSE front[k]]
             ELSE Append(front, [key |-> key, rows |-> <<row>>])

\* mutant of append_result: the result replaces the list of its activity
append_result_replacing(results, name, result) ==
    IF \E k \in 1..Len(results) : results[k].activity = name
    THEN [k \in 1..Len(results) |->
             IF results[k].activity = name
             THEN [results[k] EXCEPT !.sections = <<result>>] ELSE results[k]]
    ELSE Append(results, [activity |-> name, sections |-> <<result>>])

\* activity_results[activity_name].append(result)
append_result(results, name, result) ==
    IF \E k \in 1..Len(results) : results[k].activity = name
    THEN [k \in 1..Len(results) |->
             IF results[k].activity = name
             THEN [results[k] EXCEPT !.sections = Append(@, result)] ELSE results[k]]
    ELSE Append(results, [activity |-> name, sections |-> <<result>>])

\* what the export of a section does: both writers return, write_section_sheet
\* raises, or write_confluence_markdown raises
Outcomes == {"written", "sheet failed", "confluence failed"}

\* one iteration of "for section in sections" of the export
exported_section(section, unique, outcome) ==
    IF outcome = "written" THEN [section EXCEPT !.sheet_name = Str(unique.name)]
    ELSE [section EXCEPT !.sheet_name = Str(unique.name), !.status = "FAILED",
                         !.error = Text("Export failed: " \o outcome)]

\* "for section in sections" of the export from section k on, with the sheet
\* names in use
RECURSIVE export_sections(_, _, _, _)
export_sections(sections, k, used_sheet_names, outcomes) ==
    IF k > Len(sections) THEN sections
    ELSE IF sections[k].status # "OK"
    THEN export_sections(sections, k + 1, used_sheet_names, outcomes)
    ELSE export_sections(
             [sections EXCEPT ![k] =
                 exported_section(sections[k],
                                  ensure_unique_sheet_name(sections[k].sheet_name.value, used_sheet_names),
                                  outcomes[k])],
             k + 1,
             ensure_unique_sheet_name(sections[k].sheet_name.value, used_sheet_names).used,
             outcomes)

(***************************************************************************)
(* SpecOrd: tokenize under the configurations loaded from one document     *)
(* whose roles and whose tokens are listed in different orders             *)
(***************************************************************************)
MaxOrdPieces == 4
OrdPieces == {<<"A">>, <<"&">>, <<"=">>, <<"1">>, <<"!">>}
OrdFormulas == {Flatten(ps) : ps \in SeqsUpTo(OrdPieces, MaxOrdPieces)}

Reversed(s) == [k \in 1..Len(s) |-> s[Len(s) + 1 - k]]

\* a configuration with tokens that are prefixes of other tokens
LISTED_CONFIG ==
    [AND |-> << <<"&">>, <<"&", "&">> >>,
     OR |-> << <<"|">>, <<"|", "|">> >>,
     NOT |-> << <<"!">> >>,
     NEQ |-> << <<"<", ">">>, <<"!", "=">> >>,
     EQ |-> << <<"=">>, <<"=", "=">> >>,
     LPAREN |-> << <<"(">> >>,
     RPAREN |-> << <<")">> >>]

\* LISTED_CONFIG as a document with its roles in the order of keys and the
\* tokens of the roles of reversed in the reverse order
Listed(keys, reversed) ==
    [kind |-> "object",
     keys |-> keys,
     values |-> [role \in Elements(keys) |->
                   LET items == [k \in 1..Len(LISTED_CONFIG[role]) |-> Str(LISTED_CONFIG[role][k])]
                   IN  List(IF role \in reversed THEN Reversed(items) ELSE items)]]

OrdDocuments ==
    {Listed(keys, reversed) :
        keys \in {DocumentKeys, Reversed(DocumentKeys)},
        reversed \in {{}, {"AND"}, {"NEQ", "EQ"}, {"AND", "NEQ", "EQ"}}}

\* op_config = load_operator_config(path) of a file that holds raw
InitOrd ==
    /\ sheet = None /\ grouped = None /\ activity_results = None /\ max_rules = 0
    /\ pc = "tokenize"
    /\ formula \in OrdFormulas
    /\ raw \in OrdDocuments
    /\ op_config = load_document(raw).config
    /\ text = <<>>
    /\ run = 1
    /\ position = 0
    /\ ast = None /\ nnf = None /\ dnf = None /\ normalized = None
    /\ first = None
    /\ literal = None
    /\ tokenized = None /\ callback = None /\ files = NoFiles /\ CACHE = EmptyCache
    /\ loaded = None

NextOrd == Tokenize

SpecOrd == InitOrd /\ [][NextOrd]_vars

(***************************************************************************)
(* SpecScan: the scan loop of tokenize, one iteration a step; position is  *)
(* i, tokenized holds the tokens so far and run counts the iterations      *)
(***************************************************************************)
MaxScanPieces == 3
ScanPieces == {<<"A">>, <<"A", "N", "D">>, <<"=">>, <<"1">>, <<"&">>, <<"!">>, <<" ">>}
ScanFormulas == {Flatten(ps) : ps \in SeqsUpTo(ScanPieces, MaxScanPieces)}
ScanConfigs == {DEFAULT_CONFIG, KEYWORD_CONFIG}

\* op_config.expression_ops and list(op_config.neq_ops) + list(op_config.eq_ops),
\* which every iteration computes anew from the configuration
ScanOperators == [cfg \in ScanConfigs |-> expression_ops(cfg)]
ScanComparators == [cfg \in ScanConfigs |-> neq_ops(cfg) \o eq_ops(cfg)]

\* tokens = []; i = 0
InitScan ==
    /\ sheet = None /\ grouped = None /\ activity_results = None /\ max_rules = 0
    /\ pc = "scan"
    /\ formula \in ScanFormulas
    /\ op_config \in ScanConfigs
    /\ position = 0
    /\ tokenized = [ok |-> TRUE, tokens |-> <<>>]
    /\ run = 0
    /\ text = <<>>
    /\ ast = None /\ nnf = None /\ dnf = None /\ normalized = None
    /\ first = None
    /\ literal = None
    /\ callback = None /\ files = NoFiles /\ CACHE = EmptyCache
    /\ raw = None /\ loaded = None

\* while i < len(formula): one iteration
ScanIteration ==
    /\ pc = "scan"
    /\ position < Len(formula)
    /\ LET r == tokenize_iteration(formula, op_config, ScanOperators[op_config],
                                   ScanComparators[op_config], position, tokenized.tokens)
       IN  /\ tokenized' = IF r.ok THEN [ok |-> TRUE, tokens |-> r.tokens] ELSE r
           /\ position' = IF r.ok THEN r.i ELSE position
           /\ pc' = IF r.ok THEN "scan" ELSE "failed"
    /\ run' = run + 1
    /\ UNCHANGED <<sheet, grouped, activity_results, max_rules, raw, loaded, callback, files, CACHE, formula, op_config, ast, nnf, dnf,
                   normalized, first, text, literal>>

\* the loop condition is false: return tokens
ScanReturn ==
    /\ pc = "scan"
    /\ position >= Len(formula)
    /\ pc' = "tokenized"
    /\ UNCHANGED <<sheet, grouped, activity_results, max_rules, raw, loaded, tokenized, callback, files, CACHE, formula, op_config, run,
                   position, ast, nnf, dnf, normalized, first, text, literal>>

NextScan == ScanIteration \/ ScanReturn

SpecScan == InitScan /\ [][NextScan]_vars

\* a call of tokenize is not suspended for ever: the loop takes its next step
SpecScanLive == SpecScan /\ WF_vars(NextScan)

(***************************************************************************)
(* SpecLoad: MaxCallers threads call load_operator_config on one path that *)
(* is not cached; nothing in the function holds a lock, so a thread can be *)
(* suspended after the cache check and before the store.  pc, raw and      *)
(* loaded are per caller: where it is, its local config and what it got;   *)
(* run counts the OperatorConfig objects constructed and position the      *)
(* stores into _CACHE; an entry of CACHE is the object and its mapping.    *)
(***************************************************************************)
MaxCallers == 2
Callers == 1..MaxCallers

LoadDocuments ==
    {DEFAULT_DOCUMENT, Listed(DocumentKeys, {}), Listed(Reversed(DocumentKeys), {"AND"}),
     Edited([NOT |-> Absent]), Edited([AND |-> List(<< >>)]),
     [kind |-> "invalid"], [kind |-> "missing"], [kind |-> "array"]}

InitLoad ==
    /\ sheet = None /\ grouped = None /\ activity_results = None /\ max_rules = 0
    /\ pc = [c \in Callers |-> "start"]
    /\ raw = [c \in Callers |-> None]
    /\ loaded = [c \in Callers |-> None]
    /\ files \in [Paths -> LoadDocuments]
    /\ CACHE = EmptyCache
    /\ run = 0
    /\ position = 0
    /\ formula = << >> /\ op_config = DEFAULT_CONFIG
    /\ ast = None /\ nnf = None /\ dnf = None /\ normalized = None
    /\ first = None
    /\ text = << >> /\ literal = None
    /\ tokenized = None /\ callback = None

\* if cache_key in _CACHE: return _CACHE[cache_key]
CheckCache(c) ==
    /\ pc[c] = "start"
    /\ \E path \in Paths :
          IF cached(CACHE, path)
          THEN /\ loaded' = [loaded EXCEPT ![c] = [ok |-> TRUE] @@ CACHE[path]]
               /\ pc' = [pc EXCEPT ![c] = "done"]
          ELSE /\ loaded' = loaded
               /\ pc' = [pc EXCEPT ![c] = "read"]
    /\ UNCHANGED <<sheet, grouped, activity_results, max_rules, raw, files, CACHE, run, position, formula, op_config, ast, nnf, dnf,
                   normalized, first, text, literal, tokenized, callback>>

\* the file read and validated; config = OperatorConfig(mapping, resolved),
\* a new object, or the OperatorConfigError raised
ReadAndValidate(c) ==
    /\ pc[c] = "read"
    /\ \E path \in Paths :
          LET r == load_document(files[path])
          IN  IF r.ok
              THEN /\ raw' = [raw EXCEPT ![c] = [object |-> run + 1, config |-> r.config]]
                   /\ run' = run + 1
                   /\ loaded' = loaded
                   /\ pc' = [pc EXCEPT ![c] = "store"]
              ELSE /\ loaded' = [loaded EXCEPT ![c] = r]
                   /\ pc' = [pc EXCEPT ![c] = "failed"]
                   /\ UNCHANGED <<sheet, grouped, activity_results, max_rules, raw, run>>
    /\ UNCHANGED <<sheet, grouped, activity_results, max_rules, files, CACHE, position, formula, op_config, ast, nnf, dnf,
                   normalized, first, text, literal, tokenized, callback>>

\* _CACHE[cache_key] = config; return config
StoreConfig(c) ==
    /\ pc[c] = "store"
    /\ \E path \in Paths : CACHE' = store(CACHE, path, raw[c])
    /\ position' = position + 1
    /\ loaded' = [loaded EXCEPT ![c] = [ok |-> TRUE] @@ raw[c]]
    /\ pc' = [pc EXCEPT ![c] = "done"]
    /\ UNCHANGED <<sheet, grouped, activity_results, max_rules, raw, files, run, formula, op_config, ast, nnf, dnf,
                   normalized, first, text, literal, tokenized, callback>>

NextLoad == \E c \in Callers : CheckCache(c) \/ ReadAndValidate(c) \/ StoreConfig(c)

SpecLoad == InitLoad /\ [][NextLoad]_vars

(***************************************************************************)
(* SpecExcel: process_excel on a sheet of at most MaxRows rows, without a  *)
(* variable mapping; position counts the iterations of the loop in         *)
(* progress                                                                *)
(***************************************************************************)
MaxRows == 2

Row(a, b, c, f, g, h, i) == [A |-> a, B |-> b, C |-> c, F |-> f, G |-> g, H |-> h, I |-> i]

WATER == Str(<<"W", "a", "t", "e", "r">>)
SOIL == Str(<<"S", "o", "i", "l">>)

\* rows of the activities X and Y: formulas of one, two, three and no
\* clauses, a negated A=0, a dangling operator; a section number that gives
\* the sheet name of another; cells left empty; an objective without
\* abbreviation
RowKinds ==
    {Row(WATER, Str(<<"1">>), Str(<<"X">>), Str(<<"G">>), Str(<<"T">>), Str(<<"A">>), Str(<<"D">>)),
     Row(WATER, Str(<<"1", ":">>), Str(<<"X">>), Str(<<"G">>), Str(<<"T">>),
         Str(<<"A", "|", "B">>), Str(<<"D">>)),
     Row(WATER, Str(<<"1">>), Str(<<"X">>), Str(<<"G">>), Str(<<"T">>),
         Str(<<"b", "|", "A", "|", "C">>), Str(<<"D">>)),
     Row(WATER, Str(<<"1">>), Str(<<"X">>), Str(<<"G">>), Str(<<"T">>),
         Str(<<"!", "A", "=", "0">>), Str(<<"D">>)),
     Row(WATER, Str(<<"1">>), Str(<<"X">>), Str(<<"G">>), Str(<<"T">>),
         Str(<<"A", "&">>), Str(<<"D">>)),
     Row(WATER, Str(<<"1">>), Str(<<"X">>), Str(<<"G">>), Str(<<"T">>), Str(<<"A">>), None),
     Row(SOIL, Str(<<"1">>), Str(<<"X">>), Str(<<"G">>), Str(<<"T">>), Str(<<"A">>), Str(<<"D">>)),
     Row(WATER, Str(<<"1">>), None, Str(<<"G">>), Str(<<"T">>), Str(<<"A">>), Str(<<"D">>)),
     Row(WATER, None, Str(<<"Y">>), Str(<<"G">>), Str(<<"T">>), Str(<<"A">>), Str(<<"D">>)),
     Row(WATER, Str(<<"1">>), Str(<<"Y">>), Str(<<"G">>), Str(<<"T">>),
         Str(<<"A", "=", "0", "&", "!", "A">>), Str(<<"D">>))}

Sheets == SeqsUpTo(RowKinds, MaxRows)

RuleLimits == {1, 2}

\* process_excel(input_path, output_root, max_rules) after the workbook and
\* the operator configuration are loaded
InitExcel ==
    /\ pc = "group_rows"
    /\ sheet \in Sheets
    /\ max_rules \in RuleLimits
    /\ op_config = DEFAULT_CONFIG
    /\ grouped = None
    /\ activity_results = None
    /\ position = 0
    /\ run = 1
    /\ formula = <<>>
    /\ ast = None /\ nnf = None /\ dnf = None /\ normalized = None
    /\ first = None
    /\ text = <<>> /\ literal = None
    /\ tokenized = None /\ callback = None /\ files = NoFiles /\ CACHE = EmptyCache
    /\ raw = None /\ loaded = None

\* _run_stage(Stage.GROUP_ROWS, None, _group_rows); activity_results = defaultdict(list)
GroupRows ==
    /\ pc = "group_rows"
    /\ grouped' = group_rows(sheet)
    /\ activity_results' = <<>>
    /\ pc' = "sections"
    /\ UNCHANGED <<sheet, max_rules, position, raw, loaded, tokenized, callback, files, CACHE,
                   formula, op_config, run, ast, nnf, dnf, normalized, first, text, literal>>

\* one iteration of "for key, rows in grouped.items()"
ProcessSection ==
    /\ pc = "sections"
    /\ position < Len(grouped)
    /\ activity_results' =
          append_result(activity_results, activity_name(grouped[position + 1]),
                        section_result(grouped[position + 1], op_config, max_rules))
    /\ position' = position + 1
    /\ UNCHANGED <<sheet, grouped, max_rules, pc, raw, loaded, tokenized, callback, files, CACHE,
                   formula, op_config, run, ast, nnf, dnf, normalized, first, text, literal>>

\* the loop over the sections is over, the loop over the activities starts
StartExport ==
    /\ pc = "sections"
    /\ position = Len(grouped)
    /\ pc' = "export"
    /\ position' = 0
    /\ UNCHANGED <<sheet, grouped, activity_results, max_rules, raw, loaded, tokenized, callback,
                   files, CACHE, formula, op_config, run, ast, nnf, dnf, normalized, first,
                   text, literal>>

\* one iteration of "for activity, sections in activity_results.items()";
\* each writer of each OK section returns or raises
ExportActivity ==
    /\ pc = "export"
    /\ position < Len(activity_results)
    /\ LET sections == activity_results[position + 1].sections
       IN  \E outcomes \in [1..Len(sections) -> Outcomes] :
              /\ \A k \in 1..Len(sections) : sections[k].status # "OK" => outcomes[k] = "written"
              /\ activity_results' =
                    [activity_results EXCEPT ![position + 1].sections =
                        export_sections(sections, 1, {}, outcomes)]
    /\ position' = position + 1
    /\ UNCHANGED <<sheet, grouped, max_rules, pc, raw, loaded, tokenized, callback, files, CACHE,
                   formula, op_config, run, ast, nnf, dnf, normalized, first, text, literal>>

\* _init_activity_folders raises: process_excel raises and returns nothing
ExportActivityInitFails ==
    /\ pc = "export"
    /\ position < Len(activity_results)
    /\ pc' = "raised"
    /\ UNCHANGED <<sheet, grouped, activity_results, max_rules, position, raw, loaded, tokenized,
                   callback, files, CACHE, formula, op_config, run, ast, nnf, dnf, normalized,
                   first, text, literal>>

\* return activity_results
ReturnResults ==
    /\ pc = "export"
    /\ position = Len(activity_results)
    /\ pc' = "done"
    /\ UNCHANGED <<sheet, grouped, activity_results, max_rules, position, raw, loaded, tokenized,
                   callback, files, CACHE, formula, op_config, run, ast, nnf, dnf, normalized,
                   first, text, literal>>

NextExcel ==
    \/ GroupRows
    \/ ProcessSection
    \/ StartExport
    \/ ExportActivity
    \/ ExportActivityInitFails
    \/ ReturnResults

SpecExcel == InitExcel /\ [][NextExcel]_vars

(***************************************************************************)
(* C1: the parser builds the tree of the grammar                           *)
(***************************************************************************)
\* The grammar of the parser as a relation between a token sequence s and a
\* tree t: rule "expr" is term (OR term)* nested to the left, rule "term" is
\* factor (AND factor)* nested to the left, rule "factor" is NOT factor,
\* LPAREN expr RPAREN or a LITERAL; a leaf belongs to the token it shows.
RECURSIVE Derives(_, _, _)
Derives(rule, s, t) ==
    IF rule = "expr"
    THEN \/ Derives("term", s, t)
         \/ /\ t.type = "OrNode"
            /\ \E k \in 2..(Len(s) - 1) :
                  /\ s[k].type = "OR"
                  /\ Derives("expr", SubSeq(s, 1, k - 1), t.left)
                  /\ Derives("term", SubSeq(s, k + 1, Len(s)), t.right)
    ELSE IF rule = "term"
    THEN \/ Derives("factor", s, t)
         \/ /\ t.type = "AndNode"
            /\ \E k \in 2..(Len(s) - 1) :
                  /\ s[k].type = "AND"
                  /\ Derives("term", SubSeq(s, 1, k - 1), t.left)
                  /\ Derives("factor", SubSeq(s, k + 1, Len(s)), t.right)
    ELSE \/ /\ Len(s) >= 2 /\ s[1].type = "NOT" /\ t.type = "NotNode"
            /\ Derives("factor", Tail(s), t.child)
         \/ /\ Len(s) >= 3 /\ s[1].type = "LPAREN" /\ s[Len(s)].type = "RPAREN"
            /\ Derives("expr", SubSeq(s, 2, Len(s) - 1), t)
         \/ /\ Len(s) = 1 /\ s[1].type = "LITERAL" /\ t.type = "LiteralNode"
            /\ t.literal.display_name = s[1].value

Leaf(id) == LiteralNode(LiteralModel(id, id, "EQ1"))
LeafA == Leaf(<<"A">>)
LeafB == Leaf(<<"B">>)

\* the trees the grammar gives to some formulas
GrammarExamples ==
    /\ formula = <<"A","|","B","|","A">> => ast.node = OrNode(OrNode(LeafA, LeafB), LeafA)
    /\ formula = <<"A","&","B","&","A">> => ast.node = AndNode(AndNode(LeafA, LeafB), LeafA)
    /\ formula = <<"A","|","B","&","A">> => ast.node = OrNode(LeafA, AndNode(LeafB, LeafA))
    /\ formula = <<"A","&","B","|","A">> => ast.node = OrNode(AndNode(LeafA, LeafB), LeafA)
    /\ formula = <<"(","A","|","B",")","&","A">>
           => ast.node = AndNode(OrNode(LeafA, LeafB), LeafA)
    /\ formula = <<"!","A","&","B">> => ast.node = AndNode(NotNode(LeafA), LeafB)
    /\ formula = <<"!","(","A","&","B",")">> => ast.node = NotNode(AndNode(LeafA, LeafB))
    /\ formula = <<"!","!","A">> => ast.node = NotNode(NotNode(LeafA))

\* C1: every AST parse_formula returns is the tree the grammar
\* expr := term (OR term)*, term := factor (AND factor)*,
\* factor := NOT factor | LPAREN expr RPAREN | LITERAL gives to the formula's
\* tokens: AND binds tighter than OR, NOT tighter than AND, parentheses
\* override, OR- and AND-chains nest to the left, NOT-chains to the right.
C1_GrammarTree ==
    ast.ok =>
        /\ Derives("expr", tokenize(formula, op_config).tokens, ast.node)
        /\ GrammarExamples

\* C1 witness: (A|B)&A was parsed, the parentheses overriding the precedence
C1_Witness ==
    /\ pc = "to_dnf"
    /\ formula = <<"(","A","|","B",")","&","A">>
    /\ ast.ok
    /\ ast.node = AndNode(OrNode(LeafA, LeafB), LeafA)

Values == {"1", "0", "other"}

LiteralTrue(lit, v) ==
    IF lit.op = "EQ1" THEN v[lit.id] = "1"
    ELSE IF lit.op = "EQ0" THEN v[lit.id] = "0"
    ELSE v[lit.id] # "1"

RECURSIVE Eval(_, _)
Eval(t, v) ==
    IF t.type = "LiteralNode" THEN LiteralTrue(t.literal, v)
    ELSE IF t.type = "NotNode" THEN ~Eval(t.child, v)
    ELSE IF t.type = "AndNode" THEN Eval(t.left, v) /\ Eval(t.right, v)
    ELSE Eval(t.left, v) \/ Eval(t.right, v)

ClauseTrue(clause, v) == \A k \in 1..Len(clause) : LiteralTrue(clause[k], v)
SomeClauseTrue(clauses, v) == \E k \in 1..Len(clauses) : ClauseTrue(clauses[k], v)

\* C2: when to_dnf succeeds on an AST, then under every assignment of 1, 0 or
\* another value to the identifiers the AST is true if and only if some clause
\* of to_dnf(ast) has all its literals true.
C2_DnfPreservesMeaning ==
    dnf.ok =>
        \A v \in [DnfIds -> Values] : Eval(ast.node, v) <=> SomeClauseTrue(dnf.clauses, v)

LitX(op) == LiteralNode(LiteralModel(<<"X">>, <<"X">>, op))
LitY(op) == LiteralNode(LiteralModel(<<"Y">>, <<"Y">>, op))
LitZ(op) == LiteralNode(LiteralModel(<<"Z">>, <<"Z">>, op))

\* C2 witness: to_dnf succeeded on NOT (X=1 AND Z<>1), an AST with a negation
\* over a conjunction, and returned two clauses
C2_Witness ==
    /\ pc = "normalize_dnf"
    /\ ast.node = NotNode(AndNode(LitX("EQ1"), LitZ("NEQ1")))
    /\ dnf.ok
    /\ Len(dnf.clauses) = 2

(***************************************************************************)
(* C3: the clause list of to_dnf follows the structure of the AST          *)
(***************************************************************************)
\* C3: a literal gives one one-literal clause; Or(l, r) gives the clauses of l
\* followed by those of r; And(l, r) gives, for each clause of l in order and
\* each clause of r in order, the left clause's literals followed by the
\* right clause's; so the clause count is 1, the sum and the product.
\* X OR Y OR Z gives 3 one-literal clauses, X AND (Y OR Z) gives 2
\* two-literal clauses.
C3_DnfStructure ==
    dnf.ok =>
        LET t == ast.node
            L == to_dnf(t.left).clauses
            R == to_dnf(t.right).clauses
        IN  /\ t.type = "LiteralNode" => dnf.clauses = << <<t.literal>> >>
            /\ t.type = "OrNode" =>
                  /\ Len(dnf.clauses) = Len(L) + Len(R)
                  /\ \A i \in 1..Len(L) : dnf.clauses[i] = L[i]
                  /\ \A j \in 1..Len(R) : dnf.clauses[Len(L) + j] = R[j]
            /\ t.type = "AndNode" =>
                  /\ Len(dnf.clauses) = Len(L) * Len(R)
                  /\ \A i \in 1..Len(L) : \A j \in 1..Len(R) :
                        dnf.clauses[(i - 1) * Len(R) + j] = L[i] \o R[j]
            /\ t = OrNode(OrNode(LitX("EQ1"), LitY("EQ1")), LitZ("NEQ1")) =>
                  dnf.clauses = << <<LitX("EQ1").literal>>, <<LitY("EQ1").literal>>,
                                   <<LitZ("NEQ1").literal>> >>
            /\ t = AndNode(LitX("EQ1"), OrNode(LitY("EQ1"), LitZ("NEQ1"))) =>
                  dnf.clauses = << <<LitX("EQ1").literal, LitY("EQ1").literal>>,
                                   <<LitX("EQ1").literal, LitZ("NEQ1").literal>> >>

\* C3 witness: to_dnf ran on (X=1 OR Y=1) AND (X=0 OR Z<>1) and returned its
\* four clauses, the left clause varying slowest
C3_Witness ==
    /\ pc = "normalize_dnf"
    /\ ast.node = AndNode(OrNode(LitX("EQ1"), LitY("EQ1")), OrNode(LitX("EQ0"), LitZ("NEQ1")))
    /\ dnf.ok
    /\ dnf.clauses = << <<LitX("EQ1").literal, LitX("EQ0").literal>>,
                        <<LitX("EQ1").literal, LitZ("NEQ1").literal>>,
                        <<LitY("EQ1").literal, LitX("EQ0").literal>>,
                        <<LitY("EQ1").literal, LitZ("NEQ1").literal>> >>

(***************************************************************************)
(* C4: negation of literals                                                *)
(***************************************************************************)
\* the literals of a tree from left to right, each with whether the number
\* of NOT nodes above it is odd
RECURSIVE Leaves(_, _)
Leaves(t, odd) ==
    IF t.type = "LiteralNode" THEN << [literal |-> t.literal, odd |-> odd] >>
    ELSE IF t.type = "NotNode" THEN Leaves(t.child, ~odd)
    ELSE Leaves(t.left, odd) \o Leaves(t.right, odd)

Negated(op) == IF op = "EQ1" THEN "NEQ1" ELSE IF op = "NEQ1" THEN "EQ1" ELSE "none"

\* some EQ0 literal lies under an odd number of NOT nodes
OddEQ0(t) ==
    \E k \in 1..Len(Leaves(t, FALSE)) :
        Leaves(t, FALSE)[k].odd /\ Leaves(t, FALSE)[k].literal.op = "EQ0"

\* C4: to_nnf and to_dnf fail, with the error of negate_literal and without a
\* tree, exactly when some EQ0 literal lies under an odd number of NOT nodes;
\* otherwise to_nnf keeps the literals in their order, replaces the operation
\* of each literal under an odd number of NOT nodes by its negation (EQ1 and
\* NEQ1 exchanged, identifier and display name kept) and leaves the others.
C4_NegationOfLiterals ==
    LET before == Leaves(ast.node, FALSE)
        after == Leaves(nnf.node, FALSE)
    IN  /\ pc # "to_nnf" =>
              /\ nnf.ok <=> ~OddEQ0(ast.node)
              /\ ~nnf.ok => /\ nnf.error = "Negation of literal is not supported"
                            /\ "node" \notin DOMAIN nnf
              /\ nnf.ok =>
                    /\ Len(after) = Len(before)
                    /\ \A k \in 1..Len(before) :
                          /\ after[k].literal.id = before[k].literal.id
                          /\ after[k].literal.display_name = before[k].literal.display_name
                          /\ after[k].literal.op =
                                IF before[k].odd THEN Negated(before[k].literal.op)
                                ELSE before[k].literal.op
        /\ pc \in {"normalize_dnf", "failed"} =>
              /\ dnf.ok <=> ~OddEQ0(ast.node)
              /\ ~dnf.ok => /\ dnf.error = "Negation of literal is not supported"
                            /\ "clauses" \notin DOMAIN dnf

\* C4 witness: to_nnf and to_dnf failed on NOT (X=1 OR NOT NOT X=0), whose
\* EQ0 literal lies under three NOT nodes
C4_Witness ==
    /\ pc = "failed"
    /\ ast.node = NotNode(OrNode(LitX("EQ1"), NotNode(NotNode(LitX("EQ0")))))
    /\ ~nnf.ok
    /\ ~dnf.ok

\* C4 second case, to_nnf succeeded with literals under an odd number of NOTs
C4_WitnessNegated ==
    /\ pc = "normalize_dnf"
    /\ ast.node = NotNode(AndNode(LitY("EQ1"), NotNode(LitX("EQ0"))))
    /\ nnf.ok
    /\ nnf.node = OrNode(LitY("NEQ1"), LitX("EQ0"))

(***************************************************************************)
(* C5: no identifier twice in a clause of normalize_dnf                    *)
(***************************************************************************)
\* C5: in every clause returned by normalize_dnf each identifier occurs at
\* most once, so none occurs with two operations.
C5_IdentifierOncePerClause ==
    pc = "done" =>
        \A k \in 1..Len(normalized) :
            \A i, j \in 1..Len(normalized[k]) :
                normalized[k][i].id = normalized[k][j].id => i = j

NA2(op) == LiteralModel(<<"A", "2">>, <<"A", "2">>, op)
Na2 == LiteralModel(<<"a", "2">>, <<"a", "2">>, "EQ1")
NA02 == LiteralModel(<<"A", "0", "2">>, <<"A", "0", "2">>, "NEQ1")
NA10 == LiteralModel(<<"A", "1", "0">>, <<"A", "1", "0">>, "EQ1")

\* C5 witness: normalize_dnf ran on a clause with A2 three times and kept it once
C5_Witness ==
    /\ pc = "done"
    /\ dnf.clauses = << <<NA2("EQ1"), NA10, NA2("EQ1"), NA2("EQ1")>> >>
    /\ normalized = << <<NA2("EQ1"), NA10>> >>

(***************************************************************************)
(* C6: which clauses normalize_dnf drops                                   *)
(***************************************************************************)
\* some identifier occurs in the clause with two different operations
Contradictory(clause) ==
    \E i, j \in 1..Len(clause) : clause[i].id = clause[j].id /\ clause[i].op # clause[j].op

\* the position of the first occurrence of an identifier in a clause
FirstPosition(clause, id) ==
    CHOOSE i \in 1..Len(clause) :
        clause[i].id = id /\ \A j \in 1..(i - 1) : clause[j].id # id

\* out has exactly one literal per identifier of clause, with the operation
\* of the identifier's first occurrence
OneLiteralPerIdentifier(out, clause) ==
    /\ \A i, j \in 1..Len(out) : out[i].id = out[j].id => i = j
    /\ {out[i].id : i \in 1..Len(out)} = {clause[i].id : i \in 1..Len(clause)}
    /\ \A i \in 1..Len(out) : out[i].op = clause[FirstPosition(clause, out[i].id)].op

\* the clause without its repeated identifiers
RECURSIVE FirstOccurrences(_)
FirstOccurrences(clause) ==
    IF clause = <<>> THEN <<>>
    ELSE LET front == SubSeq(clause, 1, Len(clause) - 1)
             last == clause[Len(clause)]
         IN  IF \E k \in 1..Len(front) : front[k].id = last.id
             THEN FirstOccurrences(front)
             ELSE Append(FirstOccurrences(front), last)

\* the (identifier, operation) sequence of a clause after removing repeated
\* identifiers and sorting
SortedPairs(clause) ==
    LET ordered == sorted_literals(FirstOccurrences(clause))
    IN  [k \in 1..Len(ordered) |-> <<ordered[k].id, ordered[k].op>>]

\* clause i of the input is kept: it is no contradiction and no earlier kept
\* clause has its (identifier, operation) sequence
RECURSIVE Kept(_, _)
Kept(clauses, i) ==
    /\ ~Contradictory(clauses[i])
    /\ \A j \in 1..(i - 1) :
          Kept(clauses, j) => SortedPairs(clauses[j]) # SortedPairs(clauses[i])

Pairs(clause) == [k \in 1..Len(clause) |-> <<clause[k].id, clause[k].op>>]

\* C6: normalize_dnf drops an input clause exactly when (a) some identifier
\* occurs in it with two different operations or (b) its (identifier,
\* operation) sequence after removing repeated identifiers and sorting is
\* that of an earlier kept clause; every other input clause is in the
\* output with exactly one literal per identifier, carrying the first
\* occurrence's operation. [[A=1, A=0]] gives [].
C6_DroppedClauses ==
    pc = "done" =>
        LET clauses == dnf.clauses
            kept == {i \in 1..Len(clauses) : Kept(clauses, i)}
        IN  /\ Len(normalized) = Cardinality(kept)
            /\ \A i \in kept :
                  \E k \in 1..Len(normalized) :
                      /\ Pairs(normalized[k]) = SortedPairs(clauses[i])
                      /\ OneLiteralPerIdentifier(normalized[k], clauses[i])
            /\ \A k \in 1..Len(normalized) :
                  \E i \in kept : Pairs(normalized[k]) = SortedPairs(clauses[i])
            /\ clauses = << <<NA2("EQ1"), NA2("EQ0")>> >> => normalized = <<>>

\* C6 witness: of three clauses normalize_dnf dropped the contradiction
\* [A2=1, A2=0] and the second [A10=1], and kept the first
C6_Witness ==
    /\ pc = "done"
    /\ dnf.clauses = << <<NA10>>, <<NA2("EQ1"), NA2("EQ0")>>, <<NA10>> >>
    /\ normalized = << <<NA10>> >>

(***************************************************************************)
(* C7: no duplicate clauses after normalize_dnf                            *)
(***************************************************************************)
LiteralSet(clause) == {<<clause[k].id, clause[k].op>> : k \in 1..Len(clause)}

\* C7: no two clauses of the output of normalize_dnf consist of the same set
\* of (identifier, operation) literals, also for identifiers that differ
\* only in letter case or in leading zeros of a digit run.
C7_NoDuplicateClauses ==
    pc = "done" =>
        \A i, j \in 1..Len(normalized) :
            LiteralSet(normalized[i]) = LiteralSet(normalized[j]) => i = j

(***************************************************************************)
(* C8: the order of the output of normalize_dnf                            *)
(***************************************************************************)
\* a str before another: a proper prefix, or less at the first difference
StrLess(a, b) ==
    \E n \in 0..Min(Len(a), Len(b)) :
        /\ \A k \in 1..n : a[k] = b[k]
        /\ \/ n = Len(a) /\ n < Len(b)
           \/ n < Len(a) /\ n < Len(b) /\ Ord(a[n + 1]) < Ord(b[n + 1])

\* natural keys compared as lists: str pieces at odd, numbers at even indexes
PieceLess(ka, kb, k) == IF k % 2 = 1 THEN StrLess(ka[k], kb[k]) ELSE ka[k] < kb[k]

KeyEqual(ka, kb) == Len(ka) = Len(kb) /\ \A k \in 1..Len(ka) : ka[k] = kb[k]

KeyLess(ka, kb) ==
    \E n \in 0..Min(Len(ka), Len(kb)) :
        /\ \A k \in 1..n : ka[k] = kb[k]
        /\ \/ n = Len(ka) /\ n < Len(kb)
           \/ n < Len(ka) /\ n < Len(kb) /\ PieceLess(ka, kb, n + 1)

OpRank(op) == IF op = "EQ0" THEN 0 ELSE IF op = "EQ1" THEN 1 ELSE 2

\* the key of a literal: the natural key of its identifier, then its operation
LiteralEqual(x, y) == KeyEqual(natural_key(x.id), natural_key(y.id)) /\ x.op = y.op

LiteralLess(x, y) ==
    \/ KeyLess(natural_key(x.id), natural_key(y.id))
    \/ KeyEqual(natural_key(x.id), natural_key(y.id)) /\ OpRank(x.op) < OpRank(y.op)

\* the sequences of the literals' keys in lexicographic order
ClauseLeq(c1, c2) ==
    \E n \in 0..Min(Len(c1), Len(c2)) :
        /\ \A k \in 1..n : LiteralEqual(c1[k], c2[k])
        /\ \/ n = Len(c1)
           \/ n < Len(c1) /\ n < Len(c2) /\ LiteralLess(c1[n + 1], c2[n + 1])

\* C8: in the output of normalize_dnf the literals of each clause are in
\* non-decreasing order of the natural, case-insensitive key of their
\* identifier (digit runs as numbers, A2 before A10), ties broken by
\* operation EQ0 < EQ1 < NEQ1, and the clauses are in non-decreasing
\* lexicographic order of their sequences of those keys.
C8_OutputOrder ==
    pc = "done" =>
        /\ \A k \in 1..Len(normalized) :
              \A i \in 1..(Len(normalized[k]) - 1) :
                  \/ LiteralLess(normalized[k][i], normalized[k][i + 1])
                  \/ LiteralEqual(normalized[k][i], normalized[k][i + 1])
        /\ \A k \in 1..(Len(normalized) - 1) : ClauseLeq(normalized[k], normalized[k + 1])
        /\ natural_key(<<"A", "2">>) = <<<<"a">>, 2, <<>>>>
        /\ natural_key(<<"A", "1", "0">>) = <<<<"a">>, 10, <<>>>>
        /\ dnf.clauses = << <<NA10, NA2("EQ1")>> >> => normalized = << <<NA2("EQ1"), NA10>> >>

\* C8 witness: normalize_dnf ordered a2=1 after A2=0 and before A02<>1 in a
\* clause, and the clause [A10=1] after it
C8_Witness ==
    /\ pc = "done"
    /\ dnf.clauses = << <<NA10>>, <<NA02, Na2, NA2("EQ0")>> >>
    /\ normalized = << <<NA2("EQ0"), Na2, NA02>>, <<NA10>> >>

(***************************************************************************)
(* C10: suffix resolution of parse_literal                                 *)
(***************************************************************************)
HasSuffix(t, tokens, digit) == \E k \in 1..Len(tokens) : endswith(t, tokens[k] \o <<digit>>)

\* t without a token of tokens followed by digit at its end, as it is or
\* without surrounding whitespace
IsRest(id, t, tokens, digit, stripped) ==
    \E k \in 1..Len(tokens) :
        /\ endswith(t, tokens[k] \o <<digit>>)
        /\ LET rest == SubSeq(t, 1, Len(t) - Len(tokens[k]) - 1)
           IN  id = IF stripped THEN strip(rest) ELSE rest

\* the resolution order: a leading '!', a NEQ token with 1, an EQ token with
\* 0, an EQ token with 1, the bare text
Resolved(t, cfg, lit, stripped) ==
    IF startswith(t, <<"!">>, 0)
    THEN /\ lit.op = "NEQ1"
         /\ lit.id = IF stripped THEN strip(Tail(t)) ELSE Tail(t)
    ELSE IF HasSuffix(t, cfg.NEQ, "1")
    THEN lit.op = "NEQ1" /\ IsRest(lit.id, t, cfg.NEQ, "1", stripped)
    ELSE IF HasSuffix(t, cfg.EQ, "0")
    THEN lit.op = "EQ0" /\ IsRest(lit.id, t, cfg.EQ, "0", stripped)
    ELSE IF HasSuffix(t, cfg.EQ, "1")
    THEN lit.op = "EQ1" /\ IsRest(lit.id, t, cfg.EQ, "1", stripped)
    ELSE lit.op = "EQ1" /\ lit.id = t

GivesA(t, op) ==
    text = t /\ op_config = DEFAULT_CONFIG =>
        literal.ok /\ literal.literal.id = <<"A">> /\ literal.literal.op = op

BuiltInExamples ==
    /\ GivesA(<<"A">>, "EQ1")
    /\ GivesA(<<"A", "=", "1">>, "EQ1")
    /\ GivesA(<<"A", "=", "0">>, "EQ0")
    /\ GivesA(<<"!", "A">>, "NEQ1")
    /\ GivesA(<<"A", "<", ">", "1">>, "NEQ1")
    /\ GivesA(<<"A", "!", "=", "1">>, "NEQ1")

NotEqualToZero(txt, cfg) ==
    {n \in {neq_ops(cfg)[k] : k \in 1..Len(neq_ops(cfg))} :
        \E i \in 1..Len(txt) :
            /\ identifier_fullmatch(SubSeq(txt, 1, i))
            /\ txt = SubSeq(txt, 1, i) \o n \o <<"0">>}

\* C11: for every configured NEQ token n and every identifier x,
\* parse_literal applied to x + n + "0" fails, never returns a literal, and
\* its message contains n + "0".
C11_NotEqualToZeroRejected ==
    pc \in {"done", "failed"} =>
        \A n \in NotEqualToZero(text, op_config) :
            /\ ~literal.ok
            /\ contains(literal.shown, n \o <<"0">>)

(***************************************************************************)
(* C12: tokenize on a not-equal-to-0 comparison                            *)
(***************************************************************************)
\* the texts n + "0", n a configured NEQ token, that follow an identifier
\* character of the formula
NotEqualToZeroIn(f, cfg) ==
    {n \o <<"0">> : n \in {m \in {neq_ops(cfg)[k] : k \in 1..Len(neq_ops(cfg))} :
        \E i \in 1..Len(f) : is_word_char(f[i]) /\ startswith(f, m \o <<"0">>, i)}}

\* C12: tokenize applied to a formula in which an identifier is immediately
\* followed by a configured NEQ token and the digit 0 raises an error that
\* mentions that substring; it returns no tokens.
C12_TokenizerRejectsNotEqualToZero ==
    pc \in {"tokenized", "failed"} =>
        \A offending \in NotEqualToZeroIn(formula, op_config) :
            /\ ~tokenized.ok
            /\ contains(tokenized.near, offending)

(***************************************************************************)
(* C13: parse_literal on the ordering comparators                          *)
(***************************************************************************)
\* position i of the text lies inside a configured NEQ token that, suffixed
\* by 1, ends the text
InsideNotEqualToOne(txt, i, cfg) ==
    \E k \in 1..Len(neq_ops(cfg)) :
        /\ endswith(txt, neq_ops(cfg)[k] \o <<"1">>)
        /\ i >= Len(txt) - Len(neq_ops(cfg)[k])
        /\ i < Len(txt)

\* C13: under every valid configuration parse_literal fails for every text
\* that contains "<" or ">" (so also "<=" and ">="), except where the
\* character is inside a configured NEQ token suffixed by 1 (the text taken
\* without the whitespace around it).
C13_OrderingComparatorsRejected ==
    (pc \in {"done", "failed"} /\ literal.ok) =>
        \A i \in 1..Len(strip(text)) :
            strip(text)[i] \in {"<", ">"} => InsideNotEqualToOne(strip(text), i, op_config)

(***************************************************************************)
(* C14: the word-boundary rule of tokenize                                 *)
(***************************************************************************)
\* the text at position p is the keyword, in any case of its letters
KeywordAt(f, p, keyword) ==
    /\ p + Len(keyword) <= Len(f)
    /\ upper(Slice(f, p, p + Len(keyword))) = keyword

\* no identifier character immediately before p or immediately after p + n
WordBoundaries(f, p, n) ==
    /\ p = 0 \/ ~is_word_char(f[p])
    /\ p + n = Len(f) \/ ~is_word_char(f[p + n + 1])

\* the configured keyword operators
Keywords(cfg) ==
    {w \in {expression_ops(cfg)[k].token : k \in 1..Len(expression_ops(cfg))} :
        is_word_operator(w)}

\* a LITERAL token covers the positions p .. p + n - 1
InLiteral(tokens, p, n) ==
    \E k \in 1..Len(tokens) :
        /\ tokens[k].type = "LITERAL"
        /\ tokens[k].pos <= p
        /\ p + n <= tokens[k].pos + Len(tokens[k].value)

\* the configured keyword operators of each configuration
KeywordsOf == [cfg \in TokConfigs |-> Keywords(cfg)]

ANDREW == <<"A", "N", "D", "R", "E", "W", "=", "1">>

\* ANDREW=1 is one LITERAL token under each configuration
OneLiteralANDREW ==
    \A cfg \in TokConfigs :
        tokenize(ANDREW, cfg) = [ok |-> TRUE, tokens |-> <<Token("LITERAL", ANDREW, 0)>>]

\* C14: tokenize emits a keyword operator token at a position only if the
\* text there is the keyword, case-insensitively, with no identifier character
\* immediately before or after it; a keyword text without these boundaries is
\* part of a LITERAL token, and ANDREW=1 is the single LITERAL token ANDREW=1.
C14_WordBoundaryRule ==
    /\ pc = "tokenized" =>
          /\ \A k \in 1..Len(tokenized.tokens) :
                LET t == tokenized.tokens[k]
                IN  (t.type # "LITERAL" /\ is_word_operator(t.value)) =>
                        /\ KeywordAt(formula, t.pos, t.value)
                        /\ WordBoundaries(formula, t.pos, Len(t.value))
          /\ \A w \in KeywordsOf[op_config] : \A p \in 0..Len(formula) :
                (KeywordAt(formula, p, w) /\ ~WordBoundaries(formula, p, Len(w))) =>
                    InLiteral(tokenized.tokens, p, Len(w))
    /\ OneLiteralANDREW

\* "and AND1" under the built-in configuration: the first keyword is the AND
\* token, the second is part of the literal AND1
C14_Witness ==
    /\ pc = "tokenized"
    /\ op_config = DEFAULT_CONFIG
    /\ formula = <<"a", "n", "d", " ", "A", "N", "D", "1">>
    /\ tokenized.tokens = <<Token("AND", <<"A", "N", "D">>, 0),
                            Token("LITERAL", <<"A", "N", "D", "1">>, 4)>>

(***************************************************************************)
(* C15: when tokenize fails                                                *)
(***************************************************************************)
\* the configured operator tokens and the configured comparators
OperatorsOf ==
    [cfg \in TokConfigs |->
        {expression_ops(cfg)[k].token : k \in 1..Len(expression_ops(cfg))}]
ComparatorsOf ==
    [cfg \in TokConfigs |->
        {(neq_ops(cfg) \o eq_ops(cfg))[k] : k \in 1..Len(neq_ops(cfg) \o eq_ops(cfg))}]

\* a configured operator token matches at position i: a keyword as a whole
\* word in any case, a symbol as it is written
OperatorsAt(f, i, cfg) ==
    {w \in OperatorsOf[cfg] :
        IF is_word_operator(w)
        THEN KeywordAt(f, i, w) /\ WordBoundaries(f, i, Len(w))
        ELSE startswith(f, w, i)}

ComparatorsAt(f, i, cfg) == {c \in ComparatorsOf[cfg] : startswith(f, c, i)}

Longest(tokens) == CHOOSE t \in tokens : \A u \in tokens : Len(u) <= Len(t)

\* where the identifier characters that start at position j end
RunEnd(f, j) ==
    CHOOSE k \in j..Len(f) :
        /\ \A m \in (j + 1)..k : is_word_char(f[m])
        /\ k = Len(f) \/ ~is_word_char(f[k + 1])

Digit01(f, i) == i < Len(f) /\ f[i + 1] \in {"0", "1"}

\* The scan from position i on reaches (a) a non-whitespace position where no
\* operator matches and, after an optional "!", no identifier character
\* stands, or (b) an identifier immediately followed by a comparator that is
\* not immediately followed by 0 or 1.
RECURSIVE ScanFails(_, _, _)
ScanFails(f, cfg, i) ==
    IF i >= Len(f) THEN FALSE
    ELSE IF f[i + 1] = " " THEN ScanFails(f, cfg, i + 1)
    ELSE IF OperatorsAt(f, i, cfg) # {}
    THEN ScanFails(f, cfg, i + Len(Longest(OperatorsAt(f, i, cfg))))
    ELSE LET j == IF f[i + 1] = "!" THEN i + 1 ELSE i
             k == RunEnd(f, j)
             comparators == ComparatorsAt(f, k, cfg)
         IN  IF k = j THEN TRUE
             ELSE IF comparators = {} THEN ScanFails(f, cfg, k)
             ELSE IF \E c \in comparators : ~Digit01(f, k + Len(c)) THEN TRUE
             ELSE ScanFails(f, cfg, k + Len(Longest(comparators)) + 1)

\* with AND configured only as "&&": A&&B tokenizes, A&B fails naming "&"
DoubleAmpersand ==
    /\ tokenize(<<"A", "&", "&", "B">>, AMPERSAND_CONFIG)
         = [ok |-> TRUE,
            tokens |-> <<Token("LITERAL", <<"A">>, 0), Token("AND", <<"&", "&">>, 1),
                         Token("LITERAL", <<"B">>, 3)>>]
    /\ ~tokenize(<<"A", "&", "B">>, AMPERSAND_CONFIG).ok
    /\ tokenize(<<"A", "&", "B">>, AMPERSAND_CONFIG).kind = "unknown character"
    /\ tokenize(<<"A", "&", "B">>, AMPERSAND_CONFIG).got = <<"&">>

\* C15: tokenize fails if and only if the scan reaches (a) or (b); in every
\* other case it returns the token list. With AND configured only as "&&",
\* A&&B tokenizes and A&B fails naming the character "&".
C15_TokenizeFailsIff ==
    /\ pc \in {"tokenized", "failed"} =>
          /\ tokenized.ok <=> ~ScanFails(formula, op_config, 0)
          /\ tokenized.ok <=> "tokens" \in DOMAIN tokenized
    /\ DoubleAmpersand

\* A&A with AND configured only as "&&": the failure names "&" at position 1
C15_Witness ==
    /\ pc = "failed"
    /\ op_config = AMPERSAND_CONFIG
    /\ formula = <<"A", "&", "A">>
    /\ tokenized.kind = "unknown character"
    /\ tokenized.got = <<"&">>
    /\ tokenized.pos = 1

(***************************************************************************)
(* C16: what an error of tokenize carries                                  *)
(***************************************************************************)
\* a part of the formula that starts at or before position p and ends after
\* it (at it, when p is the end of the formula)
WindowAround(f, p, window) ==
    \E a \in 0..p : \E b \in p..Len(f) :
        /\ window = Slice(f, a, b)
        /\ p < Len(f) => b > p

\* C16: every error of tokenize carries the failing position, a context
\* window of the formula around that position and the configured operators,
\* and the position is an index of the formula or its length.
C16_TokenizeErrorContent ==
    pc = "failed" =>
        /\ {"pos", "near", "expected_ops"} \subseteq DOMAIN tokenized
        /\ tokenized.pos \in 0..Len(formula)
        /\ WindowAround(formula, tokenized.pos, tokenized.near)
        /\ \A role \in {"AND", "OR", "NOT", "EQ", "NEQ", "LPAREN", "RPAREN"} :
              tokenized.expected_ops[role] = op_config[role]

\* "A=": the comparator ends the formula, the position is the length
C16_Witness ==
    /\ pc = "failed"
    /\ formula = <<"A", "=">>
    /\ tokenized.kind = "expected 0/1"
    /\ tokenized.pos = 2
    /\ tokenized.near = <<"A", "=">>
    /\ tokenized.expected_ops = op_config

(***************************************************************************)
(* C17: what the errors of the engine carry                                *)
(***************************************************************************)
\* the error that ended the run: of the parse, or else of to_dnf
EngineError == IF ast # None /\ ~ast.ok THEN ast ELSE dnf

\* C17: every FormulaParseError of tokenize, of
\* parse_formula_with_literal_parser and of to_nnf / to_dnf includes the
\* source position and a context snippet of the formula.
C17_ErrorsCarryPositionAndContext ==
    (pc = "failed" /\ EngineError.exception = "FormulaParseError") =>
        {"pos", "near"} \subseteq DOMAIN EngineError

(***************************************************************************)
(* C18: parse_formula consumes the whole token stream or fails             *)
(***************************************************************************)
\* the token sequence s is, as a whole, one expression (term, factor) of the
\* grammar: expr is term (OR term)*, term is factor (AND factor)*, factor is
\* NOT factor, LPAREN expr RPAREN or a LITERAL
RECURSIVE Sentence(_, _)
Sentence(rule, s) ==
    IF rule = "expr"
    THEN \/ Sentence("term", s)
         \/ \E k \in 2..(Len(s) - 1) :
               /\ s[k].type = "OR"
               /\ Sentence("expr", SubSeq(s, 1, k - 1))
               /\ Sentence("term", SubSeq(s, k + 1, Len(s)))
    ELSE IF rule = "term"
    THEN \/ Sentence("factor", s)
         \/ \E k \in 2..(Len(s) - 1) :
               /\ s[k].type = "AND"
               /\ Sentence("term", SubSeq(s, 1, k - 1))
               /\ Sentence("factor", SubSeq(s, k + 1, Len(s)))
    ELSE \/ Len(s) >= 2 /\ s[1].type = "NOT" /\ Sentence("factor", Tail(s))
         \/ /\ Len(s) >= 3 /\ s[1].type = "LPAREN" /\ s[Len(s)].type = "RPAREN"
            /\ Sentence("expr", SubSeq(s, 2, Len(s) - 1))
         \/ Len(s) = 1 /\ s[1].type = "LITERAL"

\* the number of literals of an AST
RECURSIVE LeafCount(_)
LeafCount(node) ==
    IF node.type = "LiteralNode" THEN 1
    ELSE IF node.type = "NotNode" THEN LeafCount(node.child)
    ELSE LeafCount(node.left) + LeafCount(node.right)

LiteralTokens(s) == {k \in 1..Len(s) : s[k].type = "LITERAL"}

\* what parse_formula did, toks being the tokens of the formula: an AST only
\* of the whole token sequence, a FormulaParseError for every token sequence
\* that is not one expression
WholeStreamOrError(toks, result) ==
    /\ result.ok <=> (toks.ok /\ Sentence("expr", toks.tokens))
    /\ result.ok =>
          /\ result.position = Len(toks.tokens)
          /\ LeafCount(result.node) = Cardinality(LiteralTokens(toks.tokens))
    /\ ~result.ok => result.exception = "FormulaParseError"
    /\ (toks.ok /\ toks.tokens = <<>>) => result.message = "formula is empty"

\* the failures of the claim, each on a formula
ParseFailures ==
    /\ formula \in {<< >>, <<" ">>, <<" ", " ">>} => ast.message = "formula is empty"
    /\ formula = <<"&", "A">> => ast.message = "unexpected token" /\ ast.pos = 0
    /\ formula = <<"A", "&">> => ast.message = "unexpected end of formula" /\ ast.pos = 2
    /\ formula = <<"A", " ", "A">> => ast.message = "unexpected token" /\ ast.pos = 2
    /\ formula = <<"A", ")">> => ast.message = "unexpected token" /\ ast.pos = 1
    /\ formula = <<"(", "A">> => ast.message = "unexpected end of formula" /\ ast.pos = 2
    /\ formula = <<"(", "A", " ", "A">> =>
           ast.message = "expected another token type" /\ ast.pos = 3

\* C18: parse_formula returns an AST only when the whole token stream was
\* consumed as one expression, never an AST of a prefix of the tokens; it fails
\* with a FormulaParseError on an empty or whitespace-only formula, on an
\* unexpected token, on tokens left after a complete expression and on a
\* missing closing parenthesis.
C18_WholeStreamOrError ==
    (pc # "parse_formula_with_literal_parser" /\ callback.kind = "lambda") =>
        /\ WholeStreamOrError(tokenize(formula, op_config), ast)
        /\ ParseFailures

\* "A A": the second literal is left after a complete expression
C18_Witness ==
    /\ pc = "failed"
    /\ callback.kind = "lambda"
    /\ formula = <<"A", " ", "A">>
    /\ ~ast.ok
    /\ ast.message = "unexpected token"
    /\ ast.pos = 2

(***************************************************************************)
(* C19: errors of the literal parser                                       *)
(***************************************************************************)
\* the parse ended with an error the literal parser raised, wrapped or not
LiteralParserRaised ==
    /\ pc = "failed"
    /\ ~ast.ok
    /\ ast.error \in {"LITERAL_FAILED", "raised by the literal parser"}

\* C19: whenever the literal parser raises an error, whatever its class, for
\* a LITERAL token, the parser re-raises it as a FormulaParseError that adds
\* the position of the token and the context of the formula.
C19_LiteralParserErrorsWrapped ==
    LiteralParserRaised =>
        /\ ast.exception = "FormulaParseError"
        /\ {"pos", "near"} \subseteq DOMAIN ast

(***************************************************************************)
(* C20: what load_operator_config accepts                                  *)
(***************************************************************************)
\* the tokens of a value as they are compared: alphabetic tokens upper-cased,
\* the blanks around a token left out
Canonical(item) ==
    IF isalpha(strip(item.value)) THEN upper(strip(item.value)) ELSE strip(item.value)

TokensOf(document, role) ==
    {Canonical(document.values[role].items[k]) : k \in 1..Len(document.values[role].items)}

\* the document is an object, each of the six roles is present with at least
\* one token, every token is a non-blank string and no token is listed under
\* two roles
ValidDocument(document) ==
    /\ document.kind = "object"
    /\ REQUIRED_KEYS \subseteq Elements(document.keys)
    /\ \A role \in Elements(document.keys) :
          /\ document.values[role].kind = "list"
          /\ role \in REQUIRED_KEYS => document.values[role].items # << >>
          /\ \A k \in 1..Len(document.values[role].items) :
                /\ document.values[role].items[k].kind = "str"
                /\ strip(document.values[role].items[k].value) # << >>
    /\ \A r1, r2 \in Elements(document.keys) :
          r1 # r2 => TokensOf(document, r1) \cap TokensOf(document, r2) = {}

NoTokenUnderTwoRoles(cfg) ==
    \A r1, r2 \in DOMAIN cfg : r1 # r2 => Elements(cfg[r1]) \cap Elements(cfg[r2]) = {}

ListedOperators(cfg) ==
    UNION {Elements(cfg[role]) : role \in {"LPAREN", "RPAREN", "NOT", "AND", "OR"}}

\* the listed expression-operator tokens that match at position i
ListedAt(f, i, cfg) ==
    {w \in ListedOperators(cfg) :
        IF is_word_operator(w)
        THEN KeywordAt(f, i, w) /\ WordBoundaries(f, i, Len(w))
        ELSE startswith(f, w, i)}

ListedTokens == tokenize(formula, LISTED_CONFIG)

A_AndAnd_A == tokenize(<<"A", "&", "&", "A">>, LISTED_CONFIG)

\* C21: an operator token that tokenize emits is the longest of the
\* configured expression-operator tokens that match at its position (with
\* AND tokens '&' and '&&', A&&A gives one AND token '&&'), and the
\* configurations loaded from documents that list the same tokens under the
\* same roles, with the roles or the tokens in a different order, give the
\* same token sequence for every formula, or fail at the same position.
C21_LongestMatchAnyOrder ==
    pc # "tokenize" =>
        /\ tokenized.ok =>
              \A k \in 1..Len(tokenized.tokens) :
                  LET t == tokenized.tokens[k]
                  IN  t.type # "LITERAL" =>
                          /\ t.value \in ListedAt(formula, t.pos, op_config)
                          /\ \A w \in ListedAt(formula, t.pos, op_config) : Len(w) <= Len(t.value)
        /\ tokenized.ok = ListedTokens.ok
        /\ tokenized.ok => tokenized.tokens = ListedTokens.tokens
        /\ ~tokenized.ok => tokenized.kind = ListedTokens.kind /\ tokenized.pos = ListedTokens.pos
        /\ A_AndAnd_A.ok
        /\ A_AndAnd_A.tokens = <<Token("LITERAL", <<"A">>, 0), Token("AND", <<"&", "&">>, 1),
                                 Token("LITERAL", <<"A">>, 3)>>

\* C21 witness: A&&A tokenized under the configuration of a document that
\* lists its roles in the reverse order and '&&' before '&'
C21_Witness ==
    /\ pc = "tokenized"
    /\ formula = <<"A", "&", "&", "A">>
    /\ raw.keys = Reversed(DocumentKeys)
    /\ op_config.AND = << <<"&", "&">>, <<"&">> >>
    /\ Len(tokenized.tokens) = 3
    /\ tokenized.tokens[2] = Token("AND", <<"&", "&">>, 1)
    /\ Cardinality(ListedAt(formula, 1, op_config)) = 2

(***************************************************************************)
(* C22: the cache of load_operator_config                                  *)
(***************************************************************************)
\* a step is a call of load_operator_config
IsLoad == run' = run + 1

\* C22: an entry of the cache is created only by a call that read a document
\* and validated it (a call that fails leaves the cache as it was); an entry
\* is never replaced or removed; and a call for a path that has an entry
\* returns the configuration of the entry without reading the file, whatever
\* the file holds by then.
C22_CacheStep ==
    [][/\ \A path \in DOMAIN CACHE : path \in DOMAIN CACHE' /\ CACHE'[path] = CACHE[path]
       /\ CACHE' # CACHE =>
             /\ IsLoad
             /\ raw' # None /\ load_document(raw').ok
             /\ loaded'.ok
             /\ \A path \in DOMAIN CACHE' \ DOMAIN CACHE :
                   raw' = files[path] /\ CACHE'[path] = load_document(raw').config
       /\ IsLoad /\ ~loaded'.ok => CACHE' = CACHE
       /\ \A path \in Paths \cap DOMAIN CACHE :
             IsLoad => loaded' = [ok |-> TRUE, config |-> CACHE[path]] /\ raw' = None]_vars

\* C22 witness: a call returned the cached configuration of a path whose
\* file is no longer there
C22_Witness ==
    /\ pc = "cached"
    /\ \E path \in Paths :
          /\ files[path].kind = "missing"
          /\ raw = None
          /\ loaded = [ok |-> TRUE, config |-> CACHE[path]]

(***************************************************************************)
(* C25: the result of to_nnf is in negation normal form                    *)
(***************************************************************************)
\* no Not node anywhere in a tree
RECURSIVE NotFree(_)
NotFree(t) ==
    IF t.type = "LiteralNode" THEN TRUE
    ELSE IF t.type = "NotNode" THEN FALSE
    ELSE NotFree(t.left) /\ NotFree(t.right)

\* the nodes of a tree
RECURSIVE Size(_)
Size(t) ==
    IF t.type = "LiteralNode" THEN 1
    ELSE IF t.type = "NotNode" THEN 1 + Size(t.child)
    ELSE 1 + Size(t.left) + Size(t.right)

NotXAndY == to_nnf(NotNode(AndNode(LitX("EQ1"), LitY("EQ1"))))

\* C25: a tree that to_nnf returns has no Not node, to_nnf returns it
\* unchanged when applied to it, and NOT (X AND Y) becomes
\* Or(X NEQ1, Y NEQ1).
C25_NegationNormalForm ==
    /\ pc # "to_nnf" /\ nnf.ok =>
          /\ NotFree(nnf.node)
          /\ to_nnf(nnf.node) = nnf
    /\ NotXAndY = [ok |-> TRUE, node |-> OrNode(LitX("NEQ1"), LitY("NEQ1"))]

\* C25 witness: to_nnf succeeded on a tree with a double negation and a
\* negated conjunction, NOT (NOT NOT X AND Y)
C25_Witness ==
    /\ pc = "to_dnf"
    /\ ast.node = NotNode(AndNode(NotNode(NotNode(LitX("EQ1"))), LitY("EQ1")))
    /\ nnf = [ok |-> TRUE, node |-> OrNode(LitX("NEQ1"), LitY("NEQ1"))]
    /\ Size(ast.node) > Size(nnf.node)

(***************************************************************************)
(* C26: the output of normalize_dnf and the order of its input             *)
(***************************************************************************)
\* the sequences of the positions 1..n in every order
Perms(n) == {p \in [1..n -> 1..n] : \A i, j \in 1..n : p[i] = p[j] => i = j}

Permuted(s, p) == [k \in 1..Len(s) |-> s[p[k]]]

\* the clauses as sequences of (identifier, operation) pairs
PairsOf(clauses) == [k \in 1..Len(clauses) |-> Pairs(clauses[k])]

\* C26: the clauses of the output of normalize_dnf, as sequences of
\* (identifier, operation) pairs, stay the same when the input clauses are
\* put in another order and when the literals of an input clause are put in
\* another order.
C26_OutputIndependentOfInputOrder ==
    pc = "done" =>
        LET clauses == dnf.clauses
        IN  /\ \A p \in Perms(Len(clauses)) :
                  PairsOf(normalize_dnf(Permuted(clauses, p))) = PairsOf(normalized)
            /\ \A k \in 1..Len(clauses) : \A p \in Perms(Len(clauses[k])) :
                  PairsOf(normalize_dnf([clauses EXCEPT ![k] = Permuted(clauses[k], p)]))
                      = PairsOf(normalized)

(***************************************************************************)
(* C27: normalize_dnf and the meaning of the clause list                   *)
(***************************************************************************)
\* the identifiers of a clause list
IdsOf(clauses) ==
    UNION {{clauses[k][i].id : i \in 1..Len(clauses[k])} : k \in 1..Len(clauses)}

\* C27: under every assignment of 1, 0 or another value to the identifiers,
\* some clause of the input of normalize_dnf has all its literals true if
\* and only if some clause of its output has.
C27_NormalizePreservesMeaning ==
    pc = "done" =>
        \A v \in [IdsOf(dnf.clauses) -> Values] :
            SomeClauseTrue(dnf.clauses, v) <=> SomeClauseTrue(normalized, v)

(***************************************************************************)
(* C29: tokenize terminates                                                *)
(***************************************************************************)
\* the tokens whose text holds the character at position j
TokensOver(tokens, j) == {k \in 1..Len(tokens) : tokens[k].pos <= j /\ j < tokens[k].pos + Len(tokens[k].value)}

\* the loop of SpecScan returns what tokenize returns
ScanIsTokenize == pc \in {"tokenized", "failed"} => tokenized = tokenize(formula, op_config)

\* C29: an iteration of the scan loop of tokenize raises or moves the scan
\* position forward by at least one character; the loop runs at most
\* len(formula) iterations and ends; the tokens have strictly increasing
\* positions; and every character of an accepted formula that is not
\* whitespace lies in exactly one token.
C29_TokenizeTerminates ==
    /\ [][run' = run + 1 => pc' = "failed" \/ position' >= position + 1]_vars
    /\ [](run <= Len(formula))
    /\ <>(pc \in {"tokenized", "failed"})
    /\ [](tokenized.ok =>
            \A k \in 1..(Len(tokenized.tokens) - 1) :
                tokenized.tokens[k].pos < tokenized.tokens[k + 1].pos)
    /\ [](pc = "tokenized" =>
            \A j \in 0..(Len(formula) - 1) :
                ~isspace(formula[j + 1]) => Cardinality(TokensOver(tokenized.tokens, j)) = 1)

\* C29 witness: the loop returned after as many iterations as the formula
\* "!A " has characters less one, under the configuration in which '!' is
\* the prefix of a literal
C29_Witness ==
    /\ pc = "tokenized"
    /\ formula = <<"!", "A", " ">>
    /\ op_config = KEYWORD_CONFIG
    /\ run = 2
    /\ tokenized.tokens = <<Token("LITERAL", <<"!", "A">>, 0)>>

\* C29 second case: the loop ran len(formula) iterations on "& &"
C29_WitnessEveryCharacter ==
    /\ pc = "tokenized"
    /\ formula = <<"&", " ", "&">>
    /\ run = 3

(***************************************************************************)
(* C28: concurrent callers of load_operator_config                         *)
(***************************************************************************)
\* C28: with several callers of load_operator_config on one path that is not
\* cached, at most one OperatorConfig is constructed, at most one store into
\* the cache happens, and the callers that got a configuration all got the
\* same object.
C28_ConstructedAndStoredOnce ==
    /\ run <= 1
    /\ position <= 1
    /\ \A c, d \in Callers :
          pc[c] = "done" /\ pc[d] = "done" => loaded[c].object = loaded[d].object

(***************************************************************************)
(* C23: the cap on the number of rules of a section                        *)
(***************************************************************************)
\* the sections process_excel is through with
Processed ==
    IF pc = "sections" THEN position
    ELSE IF pc \in {"export", "done", "raised"} THEN Len(grouped) ELSE 0

\* the key of the section of a group of rows
KeyOf(group) ==
    SectionKey(group.key[1], group.rows[1].B, group.key[2], group.key[3], group.key[4],
               group.rows[1].G)

\* where the results are in activity_results: the activity and the place in
\* its list
ResultPlaces ==
    IF pc = "group_rows" THEN {}
    ELSE {place \in (1..Len(activity_results)) \X (1..MaxRows) :
             place[2] <= Len(activity_results[place[1]].sections)}

\* the result at a place
ResultAt(place) == activity_results[place[1]].sections[place[2]]

\* the section passes _validate_required_fields and build_sheet_name, so
\* that its formula is parsed and normalized
ReachesParse(group) ==
    /\ ~falsy(group.key[1]) /\ ~falsy(group.key[2]) /\ ~falsy(group.key[3])
    /\ ~falsy(group.key[4])
    /\ ~falsy(group.rows[1].B) /\ ~falsy(group.rows[1].I)
    /\ group.key[1].value \in DOMAIN ABBREVIATIONS

\* the section has a normalized DNF of more than max_rules clauses
OverLimit(group) ==
    /\ ReachesParse(group)
    /\ LET parsed == parse_formula_ids(group.key[4].value, op_config)
       IN  parsed.ok /\ Len(parsed.normalized) > max_rules

\* the section was failed by the cap
FailedByCap(result) ==
    /\ result.status = "FAILED"
    /\ result.error = Text("DNF rule limit exceeded")
    /\ result.dnf = <<>>

\* C23: a section is FAILED with the error "DNF rule limit exceeded" and an
\* empty dnf exactly when its normalized DNF has more than max_rules
\* clauses; a section with at most max_rules clauses is not failed by the
\* cap.
C23_RuleLimit ==
    \A j \in 1..Processed :
        \A place \in ResultPlaces :
            ResultAt(place).key = KeyOf(grouped[j]) =>
                /\ (/\ ResultAt(place).status = "FAILED"
                    /\ ResultAt(place).error = Text("DNF rule limit exceeded"))
                       <=> OverLimit(grouped[j])
                /\ OverLimit(grouped[j]) => FailedByCap(ResultAt(place))

\* C23 witness: with max_rules 2 the section "A|B" of two clauses is OK and
\* the section "b|A|C" of three clauses is failed by the cap
C23_Witness ==
    /\ pc = "export"
    /\ position = 0
    /\ max_rules = 2
    /\ \E place \in ResultPlaces :
          /\ ResultAt(place).formula_ids = Str(<<"A", "|", "B">>)
          /\ ResultAt(place).status = "OK"
          /\ Len(ResultAt(place).dnf) = 2
    /\ \E place \in ResultPlaces :
          /\ ResultAt(place).formula_ids = Str(<<"b", "|", "A", "|", "C">>)
          /\ FailedByCap(ResultAt(place))

(***************************************************************************)
(* C30: the results process_excel returns                                  *)
(***************************************************************************)
\* a FAILED result as the section loop builds it
FailedShape(result) ==
    /\ result.sheet_name = None
    /\ result.variables = <<>>
    /\ result.dnf = <<>>
    /\ result.error # None
    /\ result.error.text # ""

\* an OK result
OkShape(result) ==
    /\ result.sheet_name # None
    /\ result.error = None

C30_BeforeExport ==
    pc = "export" /\ position = 0 =>
        \A place \in ResultPlaces :
            /\ ResultAt(place).status \in {"OK", "FAILED"}
            /\ ResultAt(place).status = "FAILED" => FailedShape(ResultAt(place))
            /\ ResultAt(place).status = "OK" => OkShape(ResultAt(place))

(***************************************************************************)
(* C24: a section that fails does not touch the other sections             *)
(***************************************************************************)
\* the result of a run on a sheet that holds the rows of this section only,
\* before the export
AloneResult(group) == section_result(group_rows(group.rows)[1], op_config, max_rules)

\* the group of rows a result belongs to
GroupOf(result) == CHOOSE j \in 1..Len(grouped) : KeyOf(grouped[j]) = result.key

\* the section got a sheet name: it was OK at the end of the section loop
HasSheet(result) == result.sheet_name # None

\* the results of an activity that got a sheet name
WithSheet(sections) == SelectSeq(sections, HasSheet)

\* the sections of an activity that are OK when run alone, in their order
AloneWithSheet(sections) ==
    WithSheet([k \in 1..Len(sections) |-> AloneResult(grouped[GroupOf(sections[k])])])

\* the sheet names the export gives to these sections when it writes them all
ExportedNames(sections) ==
    LET exported == export_sections(sections, 1, {}, [k \in 1..Len(sections) |-> "written"])
    IN  [k \in 1..Len(sections) |-> exported[k].sheet_name]

\* the activities whose export is over
Exported ==
    IF pc = "done" THEN Len(activity_results)
    ELSE IF pc \in {"export", "raised"} THEN position ELSE 0

\* what the export leaves alone
SameButExport(result, other) ==
    /\ result.key = other.key
    /\ result.formula_ids = other.formula_ids
    /\ result.formula_display = other.formula_display
    /\ result.variables = other.variables
    /\ result.dnf = other.dnf

\* C24: every grouped section that process_excel is through with has exactly
\* one SectionResult; a section that fails validation, parsing, negation or
\* the rule limit has a FAILED result with the text of its error, and the
\* run goes on: the result of every section is the one of a run without the
\* other sections, and the export gives the other sections the sheet names
\* it gives them when the failed sections are not there.
C24_FailureIsolation ==
    /\ Cardinality(ResultPlaces) = Processed
    /\ \A j \in 1..Processed :
          /\ Cardinality({place \in ResultPlaces : ResultAt(place).key = KeyOf(grouped[j])}) = 1
          /\ \A place \in ResultPlaces :
                ResultAt(place).key = KeyOf(grouped[j]) =>
                    /\ SameButExport(ResultAt(place), AloneResult(grouped[j]))
                    /\ place[1] > Exported => ResultAt(place) = AloneResult(grouped[j])
                    /\ AloneResult(grouped[j]).status = "FAILED" =>
                          /\ ResultAt(place) = AloneResult(grouped[j])
                          /\ ResultAt(place).error # None
    /\ \A a \in 1..Exported :
          LET sections == activity_results[a].sections
              written == WithSheet(sections)
          IN  [k \in 1..Len(written) |-> written[k].sheet_name]
                  = ExportedNames(AloneWithSheet(sections))

\* C24 witness: process_excel returned; the section "b|A|C" failed at the
\* rule limit and the section "A" after it, of the same activity and the
\* same section number, is OK under the sheet name WTR_1
C24_Witness ==
    /\ pc = "done"
    /\ Len(activity_results) = 1
    /\ Len(activity_results[1].sections) = 2
    /\ FailedByCap(activity_results[1].sections[1])
    /\ activity_results[1].sections[2].status = "OK"
    /\ activity_results[1].sections[2].formula_ids = Str(<<"A">>)
    /\ activity_results[1].sections[2].sheet_name = Str(<<"W", "T", "R", "_", "1">>)

\* C24 second case: a section that does not parse and a section of another
\* activity that is OK
C24_WitnessParseError ==
    /\ pc = "done"
    /\ Len(activity_results) = 2
    /\ activity_results[1].sections[1].status = "FAILED"
    /\ activity_results[1].sections[1].formula_ids = Str(<<"A", "&">>)
    /\ activity_results[2].sections[1].status = "OK"

====
